---- MODULE Spec2Model ----
(***************************************************************************)
(* M4 sensor hub core: the bus access lock, the panic registry, panic      *)
(* detection and recovery (m4sensorhub_panic_process) and the init-call    *)
(* registry with the firmware bring-up (m4sensorhub_initialize).           *)
(***************************************************************************)
EXTENDS Integers, Sequences, FiniteSets, TLC

(* ------------------------------ bounds --------------------------------- *)
NumThreads == 2
MaxRegs == 3
MaxBringups == 2
NumEvents == 2
MaxRate == 2

(* ------------------------- program constants --------------------------- *)
NULL == 0
PANICHDL_DISPLAY_RESTORE == 0
PANICHDL_IRQ_RESTORE == 1
PANICHDL_MAX == PANICHDL_IRQ_RESTORE + 1
PANIC_RESP_CHECK == <<222, 173, 190, 239>>
PanicRespLen == 4
EIO == 5
EINVAL == 22
EBADE == 52
EPERM == 1
M4ACC_PANIC_RESTORE == 1
M4GYR_PANIC_RESTORE == 2
M4ACC_DRIVER_INIT == 1
M4GYR_DRIVER_INIT == 2
M4PED_ISR == 1
M4ALS_ISR == 2
M4SH_IRQ_PRESSURE_DATA_READY == 0
M4SH_IRQ_LIGHTSENSOR_DATA_READY == 1
PANICHDL_ACCEL_RESTORE == 0
PANICHDL_GYRO_RESTORE == 1
FASTEST_RATE == 40
OVERSAMPLE_RATE == 20
RegSize == 2
IIO == 2
DD == 1

UNINITIALIZED == "UNINITIALIZED"
BOOTMODE == "BOOTMODE"
NORMALMODE == "NORMALMODE"
FACTORYMODE == "FACTORYMODE"

Threads == 1..NumThreads
Callbacks == {M4ACC_PANIC_RESTORE}
AllCallbacks == {M4ACC_PANIC_RESTORE, M4GYR_PANIC_RESTORE}
DataVals == {NULL, DD}
PanicIndex == 0..(PANICHDL_MAX - 1)
InitFuncs == {M4ACC_DRIVER_INIT, M4GYR_DRIVER_INIT}
NodeIds == 1..MaxRegs
IrqIds == 0..(NumEvents - 1)
IrqData == {DD, IIO}

VARIABLES
  pc,          \* position of every thread
  reg_access,  \* owner of the bus access lock, NULL when free
  paniclock,   \* owner of panicdata->lock, NULL when free
  funcs,       \* panicdata->funcs[PANICHDL_MAX]
  wire,        \* transactions currently on the bus: <<thread, kind>>
  hub,         \* what the M4 is running: "running", "panicked", "boot"
  mode,        \* m4sensorhub_data.mode
  i,           \* panic_process: loop index of every thread
  ret,         \* panic_process: ret of every thread
  handler,     \* panic_process: handler (copy of the slot) of every thread
  arg,         \* panic_register / panic_unregister: arguments of the call
  trace,       \* history: what the current run of panic_process has done
  dirty,       \* history: slots rewritten after the thread's walk read them
  nodes,       \* the struct init_call objects: fields and allocation state
  inithead,    \* static struct init_call *inithead
  ipc,         \* position of the thread working on the init-call list
  node,        \* unregister_initcall: node
  prev,        \* unregister_initcall: prev
  target,      \* unregister_initcall: initfunc
  inc,         \* m4sensorhub_initialize: inc
  invoked,     \* history: <<registration, err>> of the calls of this drain
  registered,  \* history: <<registration, initfunc>> registered and not
               \* unregistered, in registration order
  regs,        \* history: number of registrations so far
  bringups,    \* history: number of calls of m4sensorhub_initialize
  drains,      \* history: number of drains that ran to their end
  firmware_download_status,
  last,        \* history: the last call of panic_register / panic_unregister
               \* that took effect or returned, and what it returned; in
               \* SpecBringup the last call of m4sensorhub_initialize
  irqtable,    \* the interrupt dispatch table: event id -> (callback, data)
  mask,        \* dispatch: the pending mask of the interrupt being served
  pending,     \* dispatch: the event bits of the mask not yet looked at
  cur,         \* dispatch: the handler being run: <<event, callback, data>>
  irqtrace,    \* history: what this dispatch has invoked so far
  irqdirty,    \* history: events whose slot was rewritten during this dispatch
  irqlast,     \* history: the last irq_register / irq_unregister and its result
  client,      \* life of every client driver, from probe to remove
  racer,       \* m4sensorhub_register_initcall of every thread: position
               \* and inc
  sens,        \* accelerometer / gyro client: driver data, poll work and
               \* the hub's sample-rate register
  mpu,         \* mpu9150 client: samplerate[], latest_samplerate[] and the
               \* hub's sample-rate registers
  ped,         \* pedometer client: samplerate, status and the enable state
               \* of its two events
  ddmutex,     \* owner of the client's dd->mutex, NULL when free
  als          \* life of the light sensor client, from probe to remove

panicvars == <<pc, reg_access, paniclock, funcs, wire, i, ret, handler, arg,
               trace, dirty>>

initvars == <<nodes, inithead, ipc, node, prev, target, inc, invoked,
              registered, regs, bringups, drains, firmware_download_status>>

irqvars == <<irqtable, mask, pending, cur, irqtrace, irqdirty, irqlast>>

\* the state outside the panic and init-call groups
clientvars == <<client, mpu, sens, ped, ddmutex>>

racevars == <<racer>>

alsvars == <<als>>

extvars == <<irqvars, clientvars, racevars, alsvars>>

\* the state outside the interrupt dispatch table and its users
nonirqvars == <<panicvars, hub, mode, initvars, last, clientvars, racevars>>

vars == <<panicvars, hub, mode, initvars, last, extvars>>

EmptySlot == [callback |-> NULL, data |-> NULL]

\* the client drivers, each named by its recovery callback
Clients == AllCallbacks

\* the slot a client registers its recovery callback in
ClientSlot(c) ==
  IF c = M4ACC_PANIC_RESTORE THEN PANICHDL_ACCEL_RESTORE
                             ELSE PANICHDL_GYRO_RESTORE

\* the polled sensor clients: accelerometer and gyro
SensKinds == {"m4acc", "m4gyr"}

\* the hub register that holds the client's sample rate
SampleRateReg(k) ==
  IF k = "m4acc" THEN "M4SH_REG_ACCEL_SAMPLERATE"
                 ELSE "M4SH_REG_GYRO_SAMPLERATE"

\* rates written to the setrate attribute: off, inside [0, fastest_rate),
\* fastest_rate and above it
SensRequests == {-1, 0, FASTEST_RATE, FASTEST_RATE + 1}

\* values a sample-rate register of the hub can hold
SensRates == {-1, OVERSAMPLE_RATE, FASTEST_RATE, FASTEST_RATE + 1}

\* what a register read or write of RegSize bytes returns: all of it, a
\* part of it, an error
XferRets == {RegSize, 1, -EIO}

\* a thread that is not inside m4sensorhub_register_initcall
NoRacer == [pc |-> "idle", inc |-> NULL]

NoWrite == [reg |-> "none", val |-> 0, ret |-> 0]
NoSensCall == [op |-> "none", rate |-> 0, w |-> NoWrite]

\* no polled client is bound yet; regset is history: the register set the
\* latest poll run read since oversampling was last switched on or off
NoSens ==
  [kind |-> "none", samplerate |-> -1, latest_samplerate |-> -1,
   status |-> {}, hubrate |-> -1, pending |-> FALSE, running |-> FALSE,
   reports |-> 0, regset |-> "none", call |-> NoSensCall]

\* enum mpu9150_sensor
MpuTypes == {"TYPE_GYRO", "TYPE_COMPASS", "TYPE_ACCEL"}

\* sample rates: -1 is off
Rates == {-1} \cup (1..MaxRate)

\* the light sensor client before m4als_probe; enabled is the set of
\* events it has enabled in the hub
NoAls == [state |-> "unbound", irq_enabled |-> FALSE, enabled |-> {}]

\* the pedometer client after m4ped_probe; enabled is the set of its
\* events that are enabled in the hub
NoPed ==
  [state |-> "probed", samplerate |-> -1, irq_enabled |-> FALSE, enabled |-> {},
   reports |-> 0, call |-> [op |-> "none", rate |-> 0, err |-> 0]]

\* no data-ready interrupt of the mpu9150 client has been served
NoMpuIrq == [type |-> "none", whole |-> TRUE, reported |-> FALSE]

\* mpu9150_client_probe: every rate starts at -1; the hub has them off
MpuProbed ==
  [samplerate |-> [ty \in MpuTypes |-> -1],
   latest_samplerate |-> [ty \in MpuTypes |-> -1],
   hubrate |-> [ty \in MpuTypes |-> -1],
   phase |-> "up",
   wret |-> 0,
   irq |-> NoMpuIrq]
NoArg == <<0, NULL, NULL>>
NoHandler == <<0, NULL, NULL>>
NoIrqCall == [op |-> "none", irq |-> 0, cb_func |-> NULL, data |-> NULL,
              ret |-> "Ok"]
NoCall == [op |-> "none", t |-> 0, index |-> 0, cb_func |-> NULL,
           data |-> NULL, ret |-> 0]
NoNode == [initcb |-> NULL, pdata |-> NULL, next |-> NULL, st |-> "unused",
           reg |-> 0]

(* A transport answer to the panic handoff command.  The normal i2c slave  *)
(* program answers 0xFF for the reserved bank, the panic slave program     *)
(* answers the magic code; the transfer itself may fail or come up short.  *)
HubResponses(h) ==
  IF h = "panicked"
    THEN { [ret |-> PanicRespLen, data |-> PANIC_RESP_CHECK],
           [ret |-> PanicRespLen, data |-> <<0, 0, 0, 0>>],
           [ret |-> 2, data |-> PANIC_RESP_CHECK],
           [ret |-> -EIO, data |-> PANIC_RESP_CHECK] }
    ELSE { [ret |-> PanicRespLen, data |-> <<255, 255, 255, 255>>],
           [ret |-> 2, data |-> <<255, 255, 255, 255>>],
           [ret |-> -EIO, data |-> <<255, 255, 255, 255>>] }

(* m4acc_panic_restore and m4gyr_panic_restore return at once when their   *)
(* data is NULL and write the sample rate register otherwise.              *)
RestoreWritesHub(h) == h.data # NULL

\* the driver is up: the firmware is loaded, the (empty) init-call list was
\* drained, the mode is NORMALMODE
Init ==
  /\ pc = [t \in Threads |-> "idle"]
  /\ reg_access = NULL
  /\ paniclock = NULL
  /\ funcs = [x \in PanicIndex |-> EmptySlot]
  /\ wire = {}
  /\ hub = "running"
  /\ mode = NORMALMODE
  /\ i = [t \in Threads |-> 0]
  /\ ret = [t \in Threads |-> 0]
  /\ handler = [t \in Threads |-> EmptySlot]
  /\ arg = [t \in Threads |-> NoArg]
  /\ trace = [t \in Threads |-> <<>>]
  /\ dirty = [t \in Threads |-> {}]
  /\ nodes = [n \in NodeIds |-> NoNode]
  /\ inithead = NULL
  /\ ipc = "idle"
  /\ node = NULL
  /\ prev = NULL
  /\ target = NULL
  /\ inc = NULL
  /\ invoked = <<>>
  /\ registered = <<>>
  /\ regs = 0
  /\ bringups = 1
  /\ drains = 1
  /\ firmware_download_status = 0
  /\ last = NoCall
  /\ irqtable = [n \in IrqIds |-> EmptySlot]
  /\ mask = {}
  /\ pending = {}
  /\ cur = NoHandler
  /\ irqtrace = <<>>
  /\ irqdirty = {}
  /\ irqlast = NoIrqCall
  /\ client = [c \in Clients |-> "unbound"]
  /\ mpu = MpuProbed
  /\ sens = NoSens
  /\ racer = [t \in Threads |-> NoRacer]
  /\ ped = NoPed
  /\ ddmutex = NULL
  /\ als = NoAls

(* ----------------------------- the hub --------------------------------- *)
\* the firmware of the hub crashes; its panic i2c slave program takes over
HubPanics ==
  /\ hub = "running"
  /\ hub' = "panicked"
  /\ UNCHANGED <<pc, reg_access, paniclock, funcs, wire, mode, i, ret,
                 handler, arg, trace, dirty>>
  /\ UNCHANGED initvars
  /\ UNCHANGED last
  /\ UNCHANGED extvars

(* ---------------- register read / write (Transaction Broker) ----------- *)
\* a client, or a recovery callback with its data, reads or writes a
\* register: the bus access lock is taken and the transfer starts
RegBegin(t) ==
  /\ pc[t] \in {"idle", "cb_body"}
  /\ pc[t] = "cb_body" => RestoreWritesHub(handler[t])
  /\ reg_access = NULL
  /\ reg_access' = t
  /\ wire' = wire \cup {<<t, "reg">>}
  /\ pc' = [pc EXCEPT ![t] = IF pc[t] = "idle" THEN "reg_xfer" ELSE "cb_xfer"]
  /\ UNCHANGED <<paniclock, funcs, hub, mode, i, ret, handler, arg,
                 trace, dirty>>
  /\ UNCHANGED initvars
  /\ UNCHANGED last
  /\ UNCHANGED extvars

\* the transfer ends and the lock is released; a callback returns, i++
RegEnd(t) ==
  /\ pc[t] \in {"reg_xfer", "cb_xfer"}
  /\ wire' = wire \ {<<t, "reg">>}
  /\ reg_access' = NULL
  /\ IF pc[t] = "reg_xfer"
       THEN /\ pc' = [pc EXCEPT ![t] = "idle"]
            /\ UNCHANGED <<i, handler>>
       ELSE /\ pc' = [pc EXCEPT ![t] = "pp_walk"]
            /\ i' = [i EXCEPT ![t] = i[t] + 1]
            /\ handler' = [handler EXCEPT ![t] = EmptySlot]
  /\ UNCHANGED <<paniclock, funcs, hub, mode, ret, arg, trace, dirty>>
  /\ UNCHANGED initvars
  /\ UNCHANGED last
  /\ UNCHANGED extvars

(* ----------------------- test command (sysfs tcmd) --------------------- *)
\* m4sensorhub_execute_tcmd: m4sensorhub_i2c_write_read with no lock taken
TcmdBegin(t) ==
  /\ pc[t] = "idle"
  /\ wire' = wire \cup {<<t, "tcmd">>}
  /\ pc' = [pc EXCEPT ![t] = "tcmd_xfer"]
  /\ UNCHANGED <<reg_access, paniclock, funcs, hub, mode, i, ret,
                 handler, arg, trace, dirty>>
  /\ UNCHANGED initvars
  /\ UNCHANGED last
  /\ UNCHANGED extvars

TcmdEnd(t) ==
  /\ pc[t] = "tcmd_xfer"
  /\ wire' = wire \ {<<t, "tcmd">>}
  /\ pc' = [pc EXCEPT ![t] = "idle"]
  /\ UNCHANGED <<reg_access, paniclock, funcs, hub, mode, i, ret,
                 handler, arg, trace, dirty>>
  /\ UNCHANGED initvars
  /\ UNCHANGED last
  /\ UNCHANGED extvars

(* --------------------------- panic registry ---------------------------- *)
\* slot x is rewritten: every walk that has read it already has seen the
\* old content
Touch(x) ==
  [u \in Threads |->
     IF \/ pc[u] \in {"pp_walk", "pp_read", "cb_body", "cb_xfer"} /\ x < i[u]
        \/ pc[u] \in {"pp_read", "cb_body", "cb_xfer"} /\ x = i[u]
       THEN dirty[u] \cup {x} ELSE dirty[u]]

\* mutant: the slot is not tested, the new callback replaces the old one
PanicRegister_Overwrite(t, index, cb_func, data) ==
  /\ pc[t] = "idle"
  /\ IF (index >= PANICHDL_MAX) \/ (cb_func = NULL)
       THEN UNCHANGED <<pc, paniclock, funcs, arg, dirty>>
       ELSE /\ paniclock = NULL
            /\ funcs' = [funcs EXCEPT ![index].callback = cb_func]
            /\ paniclock' = t
            /\ arg' = [arg EXCEPT ![t] = <<index, cb_func, data>>]
            /\ pc' = [pc EXCEPT ![t] = "pr_data"]
            /\ dirty' = Touch(index)
  /\ UNCHANGED <<reg_access, wire, hub, mode, i, ret, handler, trace>>
  /\ UNCHANGED initvars
  /\ UNCHANGED extvars

\* m4sensorhub_panic_register: argument check, mutex_lock, slot test and
\* the store of the callback; -EINVAL and -EPERM change nothing
PanicRegister(t, index, cb_func, data) ==
  /\ pc[t] = "idle"
  /\ IF (index >= PANICHDL_MAX) \/ (cb_func = NULL)
       THEN UNCHANGED <<pc, paniclock, funcs, arg, dirty>>
       ELSE /\ paniclock = NULL
            /\ IF funcs[index].callback = NULL
                 THEN /\ funcs' = [funcs EXCEPT ![index].callback = cb_func]
                      /\ paniclock' = t
                      /\ arg' = [arg EXCEPT ![t] = <<index, cb_func, data>>]
                      /\ pc' = [pc EXCEPT ![t] = "pr_data"]
                      /\ dirty' = Touch(index)
                 ELSE UNCHANGED <<pc, paniclock, funcs, arg, dirty>>
  /\ UNCHANGED <<reg_access, wire, hub, mode, i, ret, handler, trace>>
  /\ UNCHANGED initvars
  /\ UNCHANGED extvars

\* the store of the data, mutex_unlock, return 0
PanicRegisterData(t) ==
  /\ pc[t] = "pr_data"
  /\ funcs' = [funcs EXCEPT ![arg[t][1]].data = arg[t][3]]
  /\ dirty' = Touch(arg[t][1])
  /\ paniclock' = NULL
  /\ arg' = [arg EXCEPT ![t] = NoArg]
  /\ pc' = [pc EXCEPT ![t] = "idle"]
  /\ UNCHANGED <<reg_access, wire, hub, mode, i, ret, handler, trace>>
  /\ UNCHANGED initvars
  /\ UNCHANGED extvars

\* mutant: the callback of every slot is cleared
PanicUnregister_AllSlots(t, index) ==
  /\ pc[t] = "idle"
  /\ IF index >= PANICHDL_MAX
       THEN UNCHANGED <<pc, paniclock, funcs, arg, dirty>>
       ELSE /\ paniclock = NULL
            /\ paniclock' = t
            /\ funcs' = [x \in PanicIndex |->
                         [funcs[x] EXCEPT !.callback = NULL]]
            /\ arg' = [arg EXCEPT ![t] = <<index, NULL, NULL>>]
            /\ pc' = [pc EXCEPT ![t] = "pu_data"]
            /\ dirty' = Touch(index)
  /\ UNCHANGED <<reg_access, wire, hub, mode, i, ret, handler, trace>>
  /\ UNCHANGED initvars
  /\ UNCHANGED extvars

\* m4sensorhub_panic_unregister: argument check, mutex_lock, callback = NULL
PanicUnregister(t, index) ==
  /\ pc[t] = "idle"
  /\ IF index >= PANICHDL_MAX
       THEN UNCHANGED <<pc, paniclock, funcs, arg, dirty>>
       ELSE /\ paniclock = NULL
            /\ paniclock' = t
            /\ funcs' = [funcs EXCEPT ![index].callback = NULL]
            /\ arg' = [arg EXCEPT ![t] = <<index, NULL, NULL>>]
            /\ pc' = [pc EXCEPT ![t] = "pu_data"]
            /\ dirty' = Touch(index)
  /\ UNCHANGED <<reg_access, wire, hub, mode, i, ret, handler, trace>>
  /\ UNCHANGED initvars
  /\ UNCHANGED extvars

\* mutant: the data of the slot is left behind
PanicUnregisterData_KeepData(t) ==
  /\ pc[t] = "pu_data"
  /\ paniclock' = NULL
  /\ arg' = [arg EXCEPT ![t] = NoArg]
  /\ pc' = [pc EXCEPT ![t] = "idle"]
  /\ UNCHANGED <<reg_access, wire, hub, mode, i, ret, handler, trace, funcs,
                 dirty>>
  /\ UNCHANGED initvars
  /\ UNCHANGED extvars

\* data = NULL, mutex_unlock, return 0
PanicUnregisterData(t) ==
  /\ pc[t] = "pu_data"
  /\ funcs' = [funcs EXCEPT ![arg[t][1]].data = NULL]
  /\ dirty' = Touch(arg[t][1])
  /\ paniclock' = NULL
  /\ arg' = [arg EXCEPT ![t] = NoArg]
  /\ pc' = [pc EXCEPT ![t] = "idle"]
  /\ UNCHANGED <<reg_access, wire, hub, mode, i, ret, handler, trace>>
  /\ UNCHANGED initvars
  /\ UNCHANGED extvars

\* what m4sensorhub_panic_register returns: -EINVAL, -EPERM or 0
PanicRegisterRet(index, cb_func) ==
  IF (index >= PANICHDL_MAX) \/ (cb_func = NULL)
    THEN -EINVAL
    ELSE IF funcs[index].callback = NULL THEN 0 ELSE -EPERM

\* what m4sensorhub_panic_unregister returns: -EINVAL or 0
PanicUnregisterRet(index) ==
  IF index >= PANICHDL_MAX THEN -EINVAL ELSE 0

(* ------------------------- m4sensorhub_panic_process ------------------- *)
\* history: the answer is the 4 byte magic value, exactly
ExactMagic(r) == r.ret = 4 /\ r.data = <<222, 173, 190, 239>>

\* mutant: the byte count is not looked at
IsPanicResponse_ValueOnly(r, data) ==
  data = PANIC_RESP_CHECK

\* (ret != sizeof(buf.data)) || (buf.data != PANIC_RESP_CHECK) is false
IsPanicResponse(r, data) ==
  ~((r # PanicRespLen) \/ (data # PANIC_RESP_CHECK))

\* mutant: the panic handoff command goes out with no lock taken
PP_Begin_NoLock(t) ==
  /\ pc[t] = "idle"
  /\ wire' = wire \cup {<<t, "panic">>}
  /\ pc' = [pc EXCEPT ![t] = "pp_xfer"]
  /\ UNCHANGED <<reg_access, paniclock, funcs, hub, mode, i, ret, handler,
                 arg, trace, dirty>>
  /\ UNCHANGED initvars
  /\ UNCHANGED last
  /\ UNCHANGED extvars

\* m4sensorhub_reg_access_lock(); the panic handoff command goes out
PP_Begin(t) ==
  /\ pc[t] = "idle"
  /\ reg_access = NULL
  /\ reg_access' = t
  /\ wire' = wire \cup {<<t, "panic">>}
  /\ pc' = [pc EXCEPT ![t] = "pp_xfer"]
  /\ UNCHANGED <<paniclock, funcs, hub, mode, i, ret, handler, arg, trace,
                 dirty>>
  /\ UNCHANGED initvars
  /\ UNCHANGED last
  /\ UNCHANGED extvars

\* mutant: a confirmed panic goes to the reload with no hardware reset
PP_CheckEnd_SkipReset(t) ==
  /\ pc[t] = "pp_xfer"
  /\ wire' = wire \ {<<t, "panic">>}
  /\ \E r \in HubResponses(hub) :
       /\ trace' = [trace EXCEPT ![t] = Append(@, <<"check", ExactMagic(r)>>)]
       /\ IF IsPanicResponse(r.ret, r.data)
            THEN /\ pc' = [pc EXCEPT ![t] = "pp_load"]
                 /\ UNCHANGED reg_access
            ELSE /\ pc' = [pc EXCEPT ![t] = "pp_done"]
                 /\ reg_access' = NULL
  /\ UNCHANGED <<paniclock, funcs, hub, mode, i, ret, handler, arg, dirty>>
  /\ UNCHANGED initvars
  /\ UNCHANGED last
  /\ UNCHANGED extvars

\* the answer is in; no panic: unlock and return, panic: go on to the reset
PP_CheckEnd(t) ==
  /\ pc[t] = "pp_xfer"
  /\ wire' = wire \ {<<t, "panic">>}
  /\ \E r \in HubResponses(hub) :
       /\ trace' = [trace EXCEPT ![t] = Append(@, <<"check", ExactMagic(r)>>)]
       /\ IF IsPanicResponse(r.ret, r.data)
            THEN /\ pc' = [pc EXCEPT ![t] = "pp_reset"]
                 /\ UNCHANGED reg_access
            ELSE /\ pc' = [pc EXCEPT ![t] = "pp_done"]
                 /\ reg_access' = NULL
  /\ UNCHANGED <<paniclock, funcs, hub, mode, i, ret, handler, arg, dirty>>
  /\ UNCHANGED initvars
  /\ UNCHANGED last
  /\ UNCHANGED extvars

\* m4sensorhub->pdev->hw_reset(m4sensorhub); msleep(100)
PP_Reset(t) ==
  /\ pc[t] = "pp_reset"
  /\ hub' = "boot"
  /\ trace' = [trace EXCEPT ![t] = Append(@, <<"reset">>)]
  /\ pc' = [pc EXCEPT ![t] = "pp_load"]
  /\ UNCHANGED <<reg_access, paniclock, funcs, wire, mode, i, ret, handler,
                 arg, dirty>>
  /\ UNCHANGED initvars
  /\ UNCHANGED last
  /\ UNCHANGED extvars

\* ret = m4sensorhub_load_firmware(m4sensorhub, 0)
PP_Load(t) ==
  /\ pc[t] = "pp_load"
  /\ \E r \in {0, -EIO} :
       /\ ret' = [ret EXCEPT ![t] = r]
       /\ hub' = IF r < 0 THEN "boot" ELSE "running"
  /\ trace' = [trace EXCEPT ![t] = Append(@, <<"load">>)]
  /\ pc' = [pc EXCEPT ![t] = "pp_loaded"]
  /\ UNCHANGED <<reg_access, paniclock, funcs, wire, mode, i, handler, arg,
                 dirty>>
  /\ UNCHANGED initvars
  /\ UNCHANGED last
  /\ UNCHANGED extvars

\* mutant: the walk starts behind the first slot
PP_AfterLoad_SkipFirst(t) ==
  /\ pc[t] = "pp_loaded"
  /\ IF ret[t] < 0
       THEN /\ pc' = [pc EXCEPT ![t] = "BUG"]
            /\ UNCHANGED <<reg_access, i>>
       ELSE /\ reg_access' = NULL
            /\ i' = [i EXCEPT ![t] = 1]
            /\ pc' = [pc EXCEPT ![t] = "pp_walk"]
  /\ UNCHANGED <<paniclock, funcs, wire, hub, mode, ret, handler, arg,
                 trace, dirty>>
  /\ UNCHANGED initvars
  /\ UNCHANGED last
  /\ UNCHANGED extvars

\* mutant: a failed reload is logged and the recovery goes on
PP_AfterLoad_NoBug(t) ==
  /\ pc[t] = "pp_loaded"
  /\ reg_access' = NULL
  /\ i' = [i EXCEPT ![t] = 0]
  /\ pc' = [pc EXCEPT ![t] = "pp_walk"]
  /\ UNCHANGED <<paniclock, funcs, wire, hub, mode, ret, handler, arg,
                 trace, dirty>>
  /\ UNCHANGED initvars
  /\ UNCHANGED last
  /\ UNCHANGED extvars

\* mutant: the callbacks are walked with the bus access lock still held
PP_AfterLoad_KeepLock(t) ==
  /\ pc[t] = "pp_loaded"
  /\ IF ret[t] < 0
       THEN /\ pc' = [pc EXCEPT ![t] = "BUG"]
            /\ UNCHANGED i
       ELSE /\ i' = [i EXCEPT ![t] = 0]
            /\ pc' = [pc EXCEPT ![t] = "pp_walk"]
  /\ UNCHANGED <<reg_access, paniclock, funcs, wire, hub, mode, ret, handler,
                 arg, trace, dirty>>
  /\ UNCHANGED initvars
  /\ UNCHANGED last
  /\ UNCHANGED extvars

\* if (ret < 0) BUG(); m4sensorhub_reg_access_unlock(); i = 0
PP_AfterLoad(t) ==
  /\ pc[t] = "pp_loaded"
  /\ IF ret[t] < 0
       THEN /\ pc' = [pc EXCEPT ![t] = "BUG"]
            /\ UNCHANGED <<reg_access, i>>
       ELSE /\ reg_access' = NULL
            /\ i' = [i EXCEPT ![t] = 0]
            /\ pc' = [pc EXCEPT ![t] = "pp_walk"]
  /\ UNCHANGED <<paniclock, funcs, wire, hub, mode, ret, handler, arg,
                 trace, dirty>>
  /\ UNCHANGED initvars
  /\ UNCHANGED last
  /\ UNCHANGED extvars

\* handler = funcs[i]: the copy reads the callback word ...
PP_ReadCallback(t) ==
  /\ pc[t] = "pp_walk"
  /\ i[t] < PANICHDL_MAX
  /\ handler' = [handler EXCEPT ![t].callback = funcs[i[t]].callback]
  /\ pc' = [pc EXCEPT ![t] = "pp_read"]
  /\ UNCHANGED <<reg_access, paniclock, funcs, wire, hub, mode, i, ret, arg,
                 trace, dirty>>
  /\ UNCHANGED initvars
  /\ UNCHANGED last
  /\ UNCHANGED extvars

\* mutant: the loop does not move on from a slot that has no callback
PP_ReadData_NoAdvance(t) ==
  /\ pc[t] = "pp_read"
  /\ IF handler[t].callback # NULL
       THEN /\ handler' = [handler EXCEPT ![t].data = funcs[i[t]].data]
            /\ pc' = [pc EXCEPT ![t] = "cb_body"]
            /\ trace' = [trace EXCEPT ![t] = Append(@, <<"call", i[t]>>)]
            /\ i' = i
       ELSE /\ handler' = [handler EXCEPT ![t] = EmptySlot]
            /\ pc' = [pc EXCEPT ![t] = "pp_walk"]
            /\ i' = i
            /\ trace' = trace
  /\ UNCHANGED <<reg_access, paniclock, funcs, wire, hub, mode, ret, arg,
                 dirty>>
  /\ UNCHANGED initvars
  /\ UNCHANGED last
  /\ UNCHANGED extvars

\* ... and the data word; if (handler.callback) the callback is called
PP_ReadData(t) ==
  /\ pc[t] = "pp_read"
  /\ IF handler[t].callback # NULL
       THEN /\ handler' = [handler EXCEPT ![t].data = funcs[i[t]].data]
            /\ pc' = [pc EXCEPT ![t] = "cb_body"]
            /\ trace' = [trace EXCEPT ![t] = Append(@, <<"call", i[t]>>)]
            /\ i' = i
       ELSE /\ handler' = [handler EXCEPT ![t] = EmptySlot]
            /\ pc' = [pc EXCEPT ![t] = "pp_walk"]
            /\ i' = [i EXCEPT ![t] = i[t] + 1]
            /\ trace' = trace
  /\ UNCHANGED <<reg_access, paniclock, funcs, wire, hub, mode, ret, arg,
                 dirty>>
  /\ UNCHANGED initvars
  /\ UNCHANGED last
  /\ UNCHANGED extvars

\* a callback whose data is NULL returns at once; i++
CallbackReturn(t) ==
  /\ pc[t] = "cb_body"
  /\ ~RestoreWritesHub(handler[t])
  /\ i' = [i EXCEPT ![t] = i[t] + 1]
  /\ handler' = [handler EXCEPT ![t] = EmptySlot]
  /\ pc' = [pc EXCEPT ![t] = "pp_walk"]
  /\ UNCHANGED <<reg_access, paniclock, funcs, wire, hub, mode, ret, arg,
                 trace, dirty>>
  /\ UNCHANGED initvars
  /\ UNCHANGED last
  /\ UNCHANGED extvars

\* the early return, or i == PANICHDL_MAX and the loop is over: return,
\* the frame (i, ret, buf, handler) is gone
PP_Return(t) ==
  /\ \/ pc[t] = "pp_done"
     \/ pc[t] = "pp_walk" /\ i[t] >= PANICHDL_MAX
  /\ pc' = [pc EXCEPT ![t] = "idle"]
  /\ i' = [i EXCEPT ![t] = 0]
  /\ ret' = [ret EXCEPT ![t] = 0]
  /\ handler' = [handler EXCEPT ![t] = EmptySlot]
  /\ trace' = [trace EXCEPT ![t] = <<>>]
  /\ dirty' = [dirty EXCEPT ![t] = {}]
  /\ UNCHANGED <<reg_access, paniclock, funcs, wire, hub, mode, arg>>
  /\ UNCHANGED initvars
  /\ UNCHANGED last
  /\ UNCHANGED extvars

(* ------------------------------ Spec ----------------------------------- *)
Next ==
  \/ HubPanics
  \/ \E t \in Threads : RegBegin(t)
  \/ \E t \in Threads : RegEnd(t)
  \/ \E t \in Threads : TcmdBegin(t)
  \/ \E t \in Threads : TcmdEnd(t)
  \/ \E t \in Threads, index \in 0..PANICHDL_MAX,
        cb_func \in Callbacks \cup {NULL}, data \in DataVals :
          PanicRegister(t, index, cb_func, data) /\ UNCHANGED last
  \/ \E t \in Threads : PanicRegisterData(t) /\ UNCHANGED last
  \/ \E t \in Threads, index \in 0..PANICHDL_MAX :
       PanicUnregister(t, index) /\ UNCHANGED last
  \/ \E t \in Threads : PanicUnregisterData(t) /\ UNCHANGED last
  \/ \E t \in Threads : PP_Begin(t)
  \/ \E t \in Threads : PP_CheckEnd(t)
  \/ \E t \in Threads : PP_Reset(t)
  \/ \E t \in Threads : PP_Load(t)
  \/ \E t \in Threads : PP_AfterLoad(t)
  \/ \E t \in Threads : PP_ReadCallback(t)
  \/ \E t \in Threads : PP_ReadData(t)
  \/ \E t \in Threads : CallbackReturn(t)
  \/ \E t \in Threads : PP_Return(t)

Spec == Init /\ [][Next]_vars

\* a step of a thread that is inside a bus transaction or inside
\* m4sensorhub_panic_process: the external operation or the callback it
\* is in returns and the code goes on
Proceed(t) ==
  \/ RegEnd(t) \/ TcmdEnd(t)
  \/ PP_CheckEnd(t) \/ PP_Reset(t) \/ PP_Load(t) \/ PP_AfterLoad(t)
  \/ PP_ReadCallback(t) \/ PP_ReadData(t) \/ CallbackReturn(t)
  \/ PP_Return(t)

\* a callback of the walk takes the bus access lock (mutex_lock)
CallbackLocks(t) == pc[t] = "cb_body" /\ RegBegin(t)

\* fair scheduling: a thread that can go on does, and a thread waiting
\* for the bus access lock gets it if it is free again and again
SpecFair ==
  /\ Spec
  /\ \A t \in Threads : WF_vars(Proceed(t)) /\ SF_vars(CallbackLocks(t))


(* ------------- the panic registry with its calls on record ------------ *)
\* m4sensorhub_panic_register, its arguments and return value recorded
RegisterCall(t, index, cb_func, data) ==
  /\ PanicRegister(t, index, cb_func, data)
  /\ last' = [op |-> "register", t |-> t, index |-> index,
              cb_func |-> cb_func, data |-> data,
              ret |-> PanicRegisterRet(index, cb_func)]

\* m4sensorhub_panic_unregister, its argument and return value recorded
UnregisterCall(t, index) ==
  /\ PanicUnregister(t, index)
  /\ last' = [op |-> "unregister", t |-> t, index |-> index,
              cb_func |-> NULL, data |-> NULL,
              ret |-> PanicUnregisterRet(index)]

NextRegistry ==
  \/ \E t \in Threads, index \in 0..PANICHDL_MAX,
        cb_func \in AllCallbacks \cup {NULL}, data \in DataVals :
          RegisterCall(t, index, cb_func, data)
  \/ \E t \in Threads : PanicRegisterData(t) /\ UNCHANGED last
  \/ \E t \in Threads, index \in 0..PANICHDL_MAX : UnregisterCall(t, index)
  \/ \E t \in Threads : PanicUnregisterData(t) /\ UNCHANGED last

SpecRegistry == Init /\ [][NextRegistry]_vars

(* --------------------- interrupt dispatch table ------------------------ *)
\* slot n is rewritten while a dispatch that has looked at it is going on
IrqTouch(n) ==
  IF n \in mask /\ n \notin pending THEN irqdirty \cup {n} ELSE irqdirty

\* mutant: the new pair replaces the one the slot holds
IrqRegister_Replace(irq, cb_func, data) ==
  /\ irqtable' = [irqtable EXCEPT ![irq] =
                    [callback |-> cb_func, data |-> data]]
  /\ irqdirty' = IrqTouch(irq)
  /\ irqlast' = [op |-> "register", irq |-> irq, cb_func |-> cb_func,
                 data |-> data, ret |-> "Ok"]
  /\ UNCHANGED <<mask, pending, cur, irqtrace>>
  /\ UNCHANGED nonirqvars

\* m4sensorhub_irq_register under the dispatch-table lock: an occupied
\* slot is left as it is (AlreadyRegistered), an empty one takes the pair
IrqRegister(irq, cb_func, data) ==
  /\ IF irqtable[irq].callback # NULL
       THEN /\ irqlast' = [op |-> "register", irq |-> irq, cb_func |-> cb_func,
                           data |-> data, ret |-> "AlreadyRegistered"]
            /\ UNCHANGED <<irqtable, irqdirty>>
       ELSE /\ irqtable' = [irqtable EXCEPT ![irq] =
                              [callback |-> cb_func, data |-> data]]
            /\ irqdirty' = IrqTouch(irq)
            /\ irqlast' = [op |-> "register", irq |-> irq, cb_func |-> cb_func,
                           data |-> data, ret |-> "Ok"]
  /\ UNCHANGED <<mask, pending, cur, irqtrace>>
  /\ UNCHANGED nonirqvars

\* m4sensorhub_irq_unregister under the dispatch-table lock: the slot is
\* cleared whatever it holds
IrqUnregister(irq) ==
  /\ irqtable' = [irqtable EXCEPT ![irq] = EmptySlot]
  /\ irqdirty' = IF irqtable[irq] # EmptySlot THEN IrqTouch(irq) ELSE irqdirty
  /\ irqlast' = [op |-> "unregister", irq |-> irq, cb_func |-> NULL,
                 data |-> NULL, ret |-> "Ok"]
  /\ UNCHANGED <<mask, pending, cur, irqtrace>>
  /\ UNCHANGED nonirqvars

\* mutant: an interrupt with no recognised bit is dropped
IrqRaise_NoPanicCheck(m) ==
  /\ mask = {} /\ pending = {} /\ cur = NoHandler /\ irqtrace = <<>>
  /\ m # {}
  /\ mask' = m
  /\ irqdirty' = {}
  /\ pending' = m \cap IrqIds
  /\ UNCHANGED <<irqtable, cur, irqlast, irqtrace>>
  /\ UNCHANGED nonirqvars

\* the interrupt line is raised with pending mask m (bit NumEvents is one
\* the table does not know): a mask with no recognised bit goes to the
\* panic check, m4sensorhub_panic_process, and not to the per-event path
IrqRaise(m) ==
  /\ mask = {} /\ pending = {} /\ cur = NoHandler /\ irqtrace = <<>>
  /\ m # {}
  /\ mask' = m
  /\ irqdirty' = {}
  /\ IF m \cap IrqIds = {}
       THEN /\ irqtrace' = << <<"panic_process", NULL, NULL>> >>
            /\ pending' = {}
       ELSE /\ pending' = m \cap IrqIds
            /\ UNCHANGED irqtrace
  /\ UNCHANGED <<irqtable, cur, irqlast>>
  /\ UNCHANGED nonirqvars

\* the next pending bit, lowest first: its slot is read under the
\* dispatch-table lock and, if it holds a callback, the handler is called
\* with (event, data) after the lock is dropped
IrqDispatch ==
  /\ pending # {} /\ cur = NoHandler
  /\ LET n == CHOOSE x \in pending : \A y \in pending : x <= y
     IN  /\ pending' = pending \ {n}
         /\ IF irqtable[n].callback # NULL
              THEN /\ cur' = <<n, irqtable[n].callback, irqtable[n].data>>
                   /\ irqtrace' = Append(irqtrace,
                                     <<n, irqtable[n].callback,
                                       irqtable[n].data>>)
              ELSE UNCHANGED <<cur, irqtrace>>
  /\ UNCHANGED <<irqtable, mask, irqdirty, irqlast>>
  /\ UNCHANGED nonirqvars

\* the handler returns
IrqHandlerReturn ==
  /\ cur # NoHandler
  /\ cur' = NoHandler
  /\ UNCHANGED <<irqtable, mask, pending, irqtrace, irqdirty, irqlast>>
  /\ UNCHANGED nonirqvars

\* all pending bits are served: the dispatch is over
IrqDone ==
  /\ mask # {} /\ pending = {} /\ cur = NoHandler
  /\ mask' = {}
  /\ irqtrace' = <<>>
  /\ irqdirty' = {}
  /\ UNCHANGED <<irqtable, pending, cur, irqlast>>
  /\ UNCHANGED nonirqvars

NextIrq ==
  \/ \E irq \in IrqIds, data \in IrqData :
       IrqRegister(irq, M4PED_ISR, data) /\ UNCHANGED als
  \/ \E irq \in IrqIds : IrqUnregister(irq) /\ UNCHANGED als
  \/ \E m \in SUBSET (0..NumEvents) : IrqRaise(m) /\ UNCHANGED als
  \/ IrqDispatch /\ UNCHANGED als
  \/ IrqHandlerReturn /\ UNCHANGED als
  \/ IrqDone /\ UNCHANGED als

SpecIrq == Init /\ [][NextIrq]_vars

(* ------------------------- client driver life -------------------------- *)
\* m4acc_probe / m4gyr_probe: dd is allocated, the init call registered
ClientProbe(c) ==
  /\ client[c] = "unbound"
  /\ client' = [client EXCEPT ![c] = "probed"]
  /\ UNCHANGED <<panicvars, hub, mode, initvars, last, irqvars, racer, mpu, sens, ped, ddmutex, als>>

\* m4acc_driver_init / m4gyr_driver_init, called by the drain of
\* m4sensorhub_initialize: m4sensorhub_panic_register(slot, restore, dd);
\* a failure is logged and nothing else
ClientDriverInit(c) ==
  /\ client[c] = "probed"
  /\ client' = [client EXCEPT ![c] = "attached"]
  /\ IF PanicRegisterRet(ClientSlot(c), c) = 0
       THEN funcs' = [funcs EXCEPT ![ClientSlot(c)] =
                        [callback |-> c, data |-> DD]]
       ELSE funcs' = funcs
  /\ dirty' = Touch(ClientSlot(c))
  /\ UNCHANGED <<pc, reg_access, paniclock, wire, i, ret, handler, arg,
                 trace>>
  /\ UNCHANGED <<hub, mode, initvars, last, irqvars, racer, mpu, sens, ped, ddmutex, als>>

\* m4acc_remove / m4gyr_remove: the work is cancelled, the init call
\* unregistered, dd freed; the panic registry is not touched. The walk of
\* m4sensorhub_unregister_initcall over a list the drain has freed may
\* oops instead of returning.
ClientRemove(c, oops) ==
  /\ client[c] \in {"probed", "attached"}
  /\ oops => client[c] = "attached"
  /\ client' = [client EXCEPT ![c] = IF oops THEN "oops" ELSE "removed"]
  /\ UNCHANGED <<panicvars, hub, mode, initvars, last, irqvars, racer, mpu, sens, ped, ddmutex, als>>

NextClient ==
  \/ \E c \in Clients : ClientProbe(c)
  \/ \E c \in Clients : ClientDriverInit(c)
  \/ \E c \in Clients, oops \in BOOLEAN : ClientRemove(c, oops)
  \/ HubPanics
  \/ \E t \in Threads : RegBegin(t)
  \/ \E t \in Threads : RegEnd(t)
  \/ \E t \in Threads : PP_Begin(t)
  \/ \E t \in Threads : PP_CheckEnd(t)
  \/ \E t \in Threads : PP_Reset(t)
  \/ \E t \in Threads : PP_Load(t)
  \/ \E t \in Threads : PP_AfterLoad(t)
  \/ \E t \in Threads : PP_ReadCallback(t)
  \/ \E t \in Threads : PP_ReadData(t)
  \/ \E t \in Threads : PP_Return(t)

SpecClient == Init /\ [][NextClient]_vars

(* ---------------- accelerometer / gyro client: polling ----------------- *)
\* m4acc_probe / m4gyr_probe: samplerate = -1, latest_samplerate = it
SensProbe(k) ==
  /\ sens.kind = "none"
  /\ sens' = [NoSens EXCEPT !.kind = k,
                            !.call = [NoSensCall EXCEPT !.op = "probe"]]
  /\ UNCHANGED <<panicvars, hub, mode, initvars, last, irqvars, racer, client, mpu, ped, ddmutex, als>>

\* the rate m4acc_set_samplerate goes on with
EffectiveRate(rate) ==
  IF (rate >= 0) /\ (rate < FASTEST_RATE) THEN OVERSAMPLE_RATE ELSE rate

\* mutant: latest_samplerate is set only when the rate was programmed
SetSamplerate_LatestOnSuccess(s, rate, wr) ==
  LET eff == EffectiveRate(rate)
      s1 == [s EXCEPT !.status =
                        IF (rate >= 0) /\ (rate < FASTEST_RATE)
                          THEN {"OVERSAMPLING", "READ_OVERSAMPLE"} ELSE {},
                      !.regset =
                        IF ((rate >= 0) /\ (rate < FASTEST_RATE))
                             = ("OVERSAMPLING" \in s.status)
                          THEN s.regset ELSE "none"]
      w == [reg |-> SampleRateReg(s.kind), val |-> eff, ret |-> wr]
  IN  IF eff = s.samplerate
        THEN [s1 EXCEPT !.call.w = NoWrite]
        ELSE IF wr # RegSize
               THEN [s1 EXCEPT !.call.w = w]
               ELSE [s1 EXCEPT !.call.w = w,
                               !.hubrate = eff,
                               !.samplerate = eff,
                               !.latest_samplerate = eff,
                               !.pending = (eff > 0)]

\* m4acc_set_samplerate(dd, rate) / m4gyr_set_samplerate(dd, rate) on the
\* record s; wr is what the register write returns if it is issued
SetSamplerate(s, rate, wr) ==
  LET eff == EffectiveRate(rate)
      s1 == [s EXCEPT !.status =
                        IF (rate >= 0) /\ (rate < FASTEST_RATE)
                          THEN {"OVERSAMPLING", "READ_OVERSAMPLE"} ELSE {},
                      !.regset =
                        IF ((rate >= 0) /\ (rate < FASTEST_RATE))
                             = ("OVERSAMPLING" \in s.status)
                          THEN s.regset ELSE "none",
                      !.latest_samplerate = eff]
      w == [reg |-> SampleRateReg(s.kind), val |-> eff, ret |-> wr]
  IN  IF eff = s.samplerate
        THEN [s1 EXCEPT !.call.w = NoWrite]
        ELSE IF wr # RegSize
               THEN [s1 EXCEPT !.call.w = w]
               ELSE [s1 EXCEPT !.call.w = w,
                               !.hubrate = eff,
                               !.samplerate = eff,
                               !.pending = (eff > 0)]

\* m4acc_setrate_store: a valid value goes to m4acc_set_samplerate
SensSetrateStore(value, wr) ==
  /\ sens.kind # "none"
  /\ sens' = SetSamplerate([sens EXCEPT !.call.op = "set",
                                        !.call.rate = value], value, wr)
  /\ UNCHANGED <<panicvars, hub, mode, initvars, last, irqvars, racer, client, mpu, ped, ddmutex, als>>

\* m4acc_suspend: m4acc_set_samplerate(dd, dd->latest_samplerate)
SensSuspend(wr) ==
  /\ sens.kind # "none"
  /\ sens' = SetSamplerate([sens EXCEPT !.call.op = "set",
                                        !.call.rate = sens.latest_samplerate],
                           sens.latest_samplerate, wr)
  /\ UNCHANGED <<panicvars, hub, mode, initvars, last, irqvars, racer, client, mpu, ped, ddmutex, als>>

\* the delay of the queued work is over: the work starts to run
SensTimer ==
  /\ sens.pending /\ ~sens.running
  /\ sens' = [sens EXCEPT !.pending = FALSE, !.running = TRUE,
                          !.call = [NoSensCall EXCEPT !.op = "timer"]]
  /\ UNCHANGED <<panicvars, hub, mode, initvars, last, irqvars, racer, client, mpu, ped, ddmutex, als>>

\* m4acc_work_func / m4gyr_work_func under dd->mutex: the choice of the
\* register set (X2, Y2, Z2 or X, Y, Z), three register reads that return
\* rx, ry, rz; the sample is reported and the work queued again only if all
\* three came back whole
SensWorkFunc(rx, ry, rz) ==
  /\ sens.running
  /\ LET st == IF "OVERSAMPLING" \in sens.status
                 THEN IF "READ_OVERSAMPLE" \in sens.status
                        THEN sens.status \ {"READ_OVERSAMPLE"}
                        ELSE sens.status \cup {"READ_OVERSAMPLE"}
                 ELSE sens.status
         ok == (rx = RegSize) /\ (ry = RegSize) /\ (rz = RegSize)
     IN  sens' = [sens EXCEPT
                    !.status = st,
                    !.regset = IF {"OVERSAMPLING", "READ_OVERSAMPLE"}
                                  \subseteq sens.status
                               THEN "secondary" ELSE "primary",
                    !.running = FALSE,
                    !.reports = IF ok THEN 1 ELSE 0,
                    !.pending = IF ok /\ sens.samplerate > 0
                                  THEN TRUE ELSE sens.pending,
                    !.call = [NoSensCall EXCEPT !.op = "work"]]
  /\ UNCHANGED <<panicvars, hub, mode, initvars, last, irqvars, racer, client, mpu, ped, ddmutex, als>>

\* the hub was reset and reloaded: the register holds the firmware's value
SensHubReloaded(v) ==
  /\ sens.kind # "none"
  /\ sens' = [sens EXCEPT !.hubrate = v,
                          !.call = [NoSensCall EXCEPT !.op = "reload"]]
  /\ UNCHANGED <<panicvars, hub, mode, initvars, last, irqvars, racer, client, mpu, ped, ddmutex, als>>

\* mutant: the callback leaves the register alone when the rate is off
SensPanicRestore_SkipOff(wr) ==
  /\ sens.kind # "none"
  /\ sens' = [sens EXCEPT
                !.hubrate = IF wr = RegSize /\ sens.samplerate > 0
                              THEN sens.samplerate ELSE sens.hubrate,
                !.pending = (sens.samplerate > 0),
                !.call = [op |-> "restore", rate |-> 0,
                          w |-> IF sens.samplerate > 0
                                  THEN [reg |-> SampleRateReg(sens.kind),
                                        val |-> sens.samplerate, ret |-> wr]
                                  ELSE NoWrite]]
  /\ UNCHANGED <<panicvars, hub, mode, initvars, last, irqvars, racer, client, mpu, ped, ddmutex, als>>

\* m4acc_panic_restore / m4gyr_panic_restore, dd not NULL: the register
\* write of dd->samplerate, cancel_delayed_work, queue_delayed_work if
\* dd->samplerate > 0
SensPanicRestore(wr) ==
  /\ sens.kind # "none"
  /\ sens' = [sens EXCEPT
                !.hubrate = IF wr = RegSize THEN sens.samplerate
                                            ELSE sens.hubrate,
                !.pending = (sens.samplerate > 0),
                !.call = [op |-> "restore", rate |-> 0,
                          w |-> [reg |-> SampleRateReg(sens.kind),
                                 val |-> sens.samplerate, ret |-> wr]]]
  /\ UNCHANGED <<panicvars, hub, mode, initvars, last, irqvars, racer, client, mpu, ped, ddmutex, als>>

NextSens ==
  \/ \E k \in SensKinds : SensProbe(k)
  \/ \E value \in SensRequests, wr \in XferRets : SensSetrateStore(value, wr)
  \/ \E wr \in XferRets : SensSuspend(wr)
  \/ SensTimer
  \/ \E rx \in XferRets, ry \in XferRets, rz \in XferRets :
       SensWorkFunc(rx, ry, rz)
  \/ \E v \in SensRates : SensHubReloaded(v)
  \/ \E wr \in XferRets : SensPanicRestore(wr)

SpecSens == Init /\ [][NextSens]_vars

(* --------------------- mpu9150 client: sample rates -------------------- *)
\* m4_set_mpu9150_delay(dd, delay, type) on the record s
\* wr is what the register write returns if it is issued; the code does
\* not look at it
M4SetMpu9150Delay(s, delay, type, wr) ==
  LET s1 == [s EXCEPT !.latest_samplerate[type] = delay]
  IN  IF delay # s.samplerate[type]
        THEN [s1 EXCEPT !.hubrate[type] = IF wr = RegSize THEN delay ELSE @,
                        !.samplerate[type] = delay,
                        !.wret = wr]
        ELSE [s1 EXCEPT !.wret = 0]

\* a write to the setrate sysfs attribute of one sensor type
MpuSetDelay(type, delay, wr) ==
  /\ mpu' = M4SetMpu9150Delay(mpu, delay, type, wr)
  /\ UNCHANGED <<panicvars, hub, mode, initvars, last, irqvars, racer, client, sens, ped, ddmutex, als>>

\* the hub panicked, was reset and has its firmware again: its registers
\* hold what the firmware starts with
MpuHubReloaded(regs0) ==
  /\ mpu.phase # "reloaded"
  /\ mpu' = [mpu EXCEPT !.hubrate = regs0, !.phase = "reloaded"]
  /\ UNCHANGED <<panicvars, hub, mode, initvars, last, irqvars, racer, client, sens, ped, ddmutex, als>>

\* mpu9150_panic_restore(m4sensorhub, dd), dd not NULL
MpuPanicRestore(wr) ==
  /\ mpu.phase = "reloaded"
  /\ LET a == M4SetMpu9150Delay(mpu, mpu.samplerate["TYPE_ACCEL"],
                                "TYPE_ACCEL", wr)
         g == M4SetMpu9150Delay(a, a.samplerate["TYPE_GYRO"], "TYPE_GYRO",
                                wr)
         c == M4SetMpu9150Delay(g, g.samplerate["TYPE_COMPASS"],
                                "TYPE_COMPASS", wr)
     IN  mpu' = [c EXCEPT !.phase = "restored"]
  /\ UNCHANGED <<panicvars, hub, mode, initvars, last, irqvars, racer, client, sens, ped, ddmutex, als>>

\* the registers m4_read_mpu9150_data reads for a type: x, y, z, and the
\* accuracy for the compass
MpuReads(type) == IF type = "TYPE_COMPASS" THEN 1..4 ELSE 1..3

\* m4_handle_mpu9150_gyro_irq / _accel_irq / _compass_irq: the reads of
\* m4_read_mpu9150_data return rets, which the code does not look at; the
\* locals, filled or not, are copied to the client data and
\* m4_report_mpu9150_inputevent reports them
MpuDataReady(type, rets) ==
  /\ mpu' = [mpu EXCEPT !.irq = [type |-> type,
                                 whole |-> \A k \in MpuReads(type) :
                                             rets[k] = RegSize,
                                 reported |-> TRUE]]
  /\ UNCHANGED <<panicvars, hub, mode, initvars, last, irqvars, racer, client, sens, ped, ddmutex, als>>

NextMpu ==
  \/ \E type \in MpuTypes, delay \in Rates, wr \in XferRets :
       MpuSetDelay(type, delay, wr)
  \/ \E regs0 \in [MpuTypes -> Rates] : MpuHubReloaded(regs0)
  \/ \E wr \in XferRets : MpuPanicRestore(wr)
  \/ \E type \in MpuTypes : \E bad \in MpuReads(type) \cup {0} :
       \E r \in XferRets :
         MpuDataReady(type, [k \in MpuReads(type) |->
                               IF k = bad THEN r ELSE RegSize])

SpecMpu == Init /\ [][NextMpu]_vars

(* ------------------- init-call registry and bring-up ------------------- *)
\* the state after m4sensorhub_probe: nothing registered, the hub in its
\* boot loader, the firmware not yet asked for
InitBoot ==
  /\ pc = [t \in Threads |-> "idle"]
  /\ reg_access = NULL
  /\ paniclock = NULL
  /\ funcs = [x \in PanicIndex |-> EmptySlot]
  /\ wire = {}
  /\ hub = "boot"
  /\ mode = UNINITIALIZED
  /\ i = [t \in Threads |-> 0]
  /\ ret = [t \in Threads |-> 0]
  /\ handler = [t \in Threads |-> EmptySlot]
  /\ arg = [t \in Threads |-> NoArg]
  /\ trace = [t \in Threads |-> <<>>]
  /\ dirty = [t \in Threads |-> {}]
  /\ nodes = [n \in NodeIds |-> NoNode]
  /\ inithead = NULL
  /\ ipc = "idle"
  /\ node = NULL
  /\ prev = NULL
  /\ target = NULL
  /\ inc = NULL
  /\ invoked = <<>>
  /\ registered = <<>>
  /\ regs = 0
  /\ bringups = 0
  /\ drains = 0
  /\ firmware_download_status = -1
  /\ last = NoCall
  /\ irqtable = [n \in IrqIds |-> EmptySlot]
  /\ mask = {}
  /\ pending = {}
  /\ cur = NoHandler
  /\ irqtrace = <<>>
  /\ irqdirty = {}
  /\ irqlast = NoIrqCall
  /\ client = [c \in Clients |-> "unbound"]
  /\ mpu = MpuProbed
  /\ sens = NoSens
  /\ racer = [t \in Threads |-> NoRacer]
  /\ ped = NoPed
  /\ ddmutex = NULL
  /\ als = NoAls

\* what kzalloc may return: NULL, memory never handed out before (the
\* lowest such object stands for all of them) or memory that was freed
Kzalloc ==
  LET unused == {n \in NodeIds : nodes[n].st = "unused"}
  IN  {NULL} \cup {n \in unused : \A m \in unused : n <= m}
             \cup {n \in NodeIds : nodes[n].st = "freed"}

\* m4sensorhub_register_initcall: the new node goes in front of the list
RegisterInitcall(initfunc, pdata, n) ==
  /\ ipc = "idle"
  /\ regs < MaxRegs
  /\ n \in Kzalloc
  /\ IF n = NULL
       THEN UNCHANGED <<nodes, inithead, registered, regs>>
       ELSE /\ nodes' = [nodes EXCEPT ![n] =
                           [initcb |-> initfunc, pdata |-> pdata,
                            next |-> inithead, st |-> "live",
                            reg |-> regs + 1]]
            /\ inithead' = n
            /\ registered' = Append(registered, <<regs + 1, initfunc>>)
            /\ regs' = regs + 1
  /\ UNCHANGED <<ipc, node, prev, target, inc, invoked, bringups, drains,
                 firmware_download_status>>
  /\ UNCHANGED <<panicvars, hub, mode>>
  /\ UNCHANGED last
  /\ UNCHANGED extvars

\* m4sensorhub_unregister_initcall: node = inithead, prev = NULL
UnregisterInitcall(initfunc) ==
  /\ ipc = "idle"
  /\ node' = inithead
  /\ prev' = NULL
  /\ target' = initfunc
  /\ registered' = SelectSeq(registered, LAMBDA e : e[2] # initfunc)
  /\ ipc' = "un_loop"
  /\ UNCHANGED <<nodes, inithead, inc, invoked, regs, bringups, drains,
                 firmware_download_status>>
  /\ UNCHANGED <<panicvars, hub, mode>>
  /\ UNCHANGED last
  /\ UNCHANGED extvars

\* one turn of the loop of m4sensorhub_unregister_initcall.  A node that
\* matches is unlinked and freed, and its next field is read after the
\* kfree; a node that was freed earlier is read as it was left (hit), as
\* something else (no hit), or the read faults (oops).
UnregisterStep(hit, oops) ==
  /\ ipc = "un_loop"
  /\ node # NULL
  /\ LET stale == nodes[node].st = "freed"
         match == IF stale THEN hit /\ nodes[node].initcb = target
                           ELSE nodes[node].initcb = target
     IN  /\ ~stale => hit
         /\ oops => (stale \/ match)
         /\ IF oops
              THEN /\ ipc' = "oops"
                   /\ UNCHANGED <<nodes, inithead, node, prev>>
              ELSE /\ IF match
                        THEN /\ inithead' = IF node = inithead
                                              THEN nodes[node].next
                                              ELSE inithead
                             /\ nodes' =
                                  LET unlinked ==
                                        IF node = inithead
                                          THEN nodes
                                          ELSE [nodes EXCEPT ![prev].next =
                                                  nodes[node].next]
                                  IN  [unlinked EXCEPT ![node].st = "freed"]
                        ELSE UNCHANGED <<nodes, inithead>>
                   /\ prev' = node
                   /\ node' = nodes[node].next
                   /\ UNCHANGED ipc
  /\ UNCHANGED <<target, inc, invoked, registered, regs, bringups, drains,
                 firmware_download_status>>
  /\ UNCHANGED <<panicvars, hub, mode>>
  /\ UNCHANGED last
  /\ UNCHANGED extvars

\* node == NULL: the loop of m4sensorhub_unregister_initcall is over
UnregisterReturn ==
  /\ ipc = "un_loop"
  /\ node = NULL
  /\ ipc' = "idle"
  /\ prev' = NULL
  /\ target' = NULL
  /\ UNCHANGED <<nodes, inithead, node, inc, invoked, registered, regs,
                 bringups, drains, firmware_download_status>>
  /\ UNCHANGED <<panicvars, hub, mode>>
  /\ UNCHANGED last
  /\ UNCHANGED extvars

\* mutant: the result of m4sensorhub_irq_init is not looked at
Initialize_IgnoreIrqInit(firmware, status, err) ==
  /\ ipc = "idle"
  /\ bringups < MaxBringups
  /\ bringups' = bringups + 1
  /\ IF firmware = NULL
       THEN UNCHANGED <<firmware_download_status, hub, inc, invoked, ipc>>
       ELSE /\ firmware_download_status' = status
            /\ IF status < 0
                 THEN /\ hub' = "boot"
                      /\ UNCHANGED <<inc, invoked, ipc>>
                 ELSE /\ hub' = "running"
                      /\ inc' = inithead
                      /\ invoked' = <<>>
                      /\ ipc' = "dr_loop"
  /\ UNCHANGED <<nodes, inithead, node, prev, target, registered, regs,
                 drains>>
  /\ UNCHANGED <<panicvars, mode>>
  /\ UNCHANGED extvars

\* m4sensorhub_initialize up to the drain: no firmware, a failed download
\* (the hub is reset into its boot loader) and a failed irq_init return
Initialize(firmware, status, err) ==
  /\ ipc = "idle"
  /\ bringups < MaxBringups
  /\ bringups' = bringups + 1
  /\ IF firmware = NULL
       THEN UNCHANGED <<firmware_download_status, hub, inc, invoked, ipc>>
       ELSE /\ firmware_download_status' = status
            /\ IF status < 0
                 THEN /\ hub' = "boot"
                      /\ UNCHANGED <<inc, invoked, ipc>>
                 ELSE /\ hub' = "running"
                      /\ IF err < 0
                           THEN UNCHANGED <<inc, invoked, ipc>>
                           ELSE /\ inc' = inithead
                                /\ invoked' = <<>>
                                /\ ipc' = "dr_loop"
  /\ UNCHANGED <<nodes, inithead, node, prev, target, registered, regs,
                 drains>>
  /\ UNCHANGED <<panicvars, mode>>
  /\ UNCHANGED extvars

\* one turn of the drain: inc->initcb(&arg) returns err, which is logged;
\* inc = inc->next; kfree(prev).  A node that was freed earlier is read as
\* it was left, or the call through it faults (oops).
DrainStep(err, oops) ==
  /\ ipc = "dr_loop"
  /\ inc # NULL
  /\ Len(invoked) <= MaxRegs
  /\ oops => nodes[inc].st = "freed"
  /\ IF oops
       THEN /\ ipc' = "oops"
            /\ UNCHANGED <<nodes, inc, invoked>>
       ELSE /\ invoked' = Append(invoked, <<nodes[inc].reg, err>>)
            /\ inc' = nodes[inc].next
            /\ nodes' = [nodes EXCEPT ![inc].st = "freed"]
            /\ UNCHANGED ipc
  /\ UNCHANGED <<inithead, node, prev, target, registered, regs, bringups,
                 drains, firmware_download_status>>
  /\ UNCHANGED <<panicvars, hub, mode>>
  /\ UNCHANGED last
  /\ UNCHANGED extvars

\* inc == NULL: all drivers are kicked off, mode = NORMALMODE
DrainEnd ==
  /\ ipc = "dr_loop"
  /\ inc = NULL
  /\ mode' = NORMALMODE
  /\ drains' = drains + 1
  /\ ipc' = "idle"
  /\ UNCHANGED <<nodes, inithead, node, prev, target, inc, invoked,
                 registered, regs, bringups, firmware_download_status>>
  /\ UNCHANGED <<panicvars, hub>>
  /\ UNCHANGED last
  /\ UNCHANGED extvars

NextInit ==
  \/ \E f \in InitFuncs, n \in NodeIds \cup {NULL} : RegisterInitcall(f, DD, n)
  \/ \E f \in InitFuncs : UnregisterInitcall(f)
  \/ \E hit \in BOOLEAN, oops \in BOOLEAN : UnregisterStep(hit, oops)
  \/ UnregisterReturn
  \/ \E firmware \in {NULL, DD}, status \in {0, -EIO}, err \in {0, -EIO} :
       Initialize(firmware, status, err) /\ UNCHANGED last
  \/ \E err \in {0, -EIO}, oops \in BOOLEAN : DrainStep(err, oops)
  \/ DrainEnd

SpecInit == InitBoot /\ [][NextInit]_vars

(* ------------- registrations that run side by side --------------------- *)
\* m4sensorhub_register_initcall of thread t up to inc->next = inithead:
\* no lock is taken, so the other thread and the drain run in between
RegisterLink(t, initfunc, pdata, n) ==
  /\ racer[t].pc = "idle"
  /\ regs < MaxRegs
  /\ n \in Kzalloc
  /\ IF n = NULL
       THEN UNCHANGED <<nodes, regs, racer>>
       ELSE /\ nodes' = [nodes EXCEPT ![n] =
                           [initcb |-> initfunc, pdata |-> pdata,
                            next |-> inithead, st |-> "live",
                            reg |-> regs + 1]]
            /\ regs' = regs + 1
            /\ racer' = [racer EXCEPT ![t] = [pc |-> "linked", inc |-> n]]
  /\ UNCHANGED <<inithead, registered, ipc, node, prev, target, inc, invoked,
                 bringups, drains, firmware_download_status>>
  /\ UNCHANGED <<panicvars, hub, mode, last, irqvars, clientvars, alsvars>>

\* inithead = inc; return 0
RegisterPublish(t) ==
  /\ racer[t].pc = "linked"
  /\ inithead' = racer[t].inc
  /\ registered' = Append(registered,
                          <<nodes[racer[t].inc].reg,
                            nodes[racer[t].inc].initcb>>)
  /\ racer' = [racer EXCEPT ![t] = NoRacer]
  /\ UNCHANGED <<nodes, regs, ipc, node, prev, target, inc, invoked,
                 bringups, drains, firmware_download_status>>
  /\ UNCHANGED <<panicvars, hub, mode, last, irqvars, clientvars, alsvars>>

NextRace ==
  \/ \E t \in Threads, f \in InitFuncs, n \in NodeIds \cup {NULL} :
       RegisterLink(t, f, DD, n)
  \/ \E t \in Threads : RegisterPublish(t)
  \/ \E firmware \in {NULL, DD}, status \in {0, -EIO}, err \in {0, -EIO} :
       Initialize(firmware, status, err) /\ UNCHANGED last
  \/ \E err \in {0, -EIO}, oops \in BOOLEAN : DrainStep(err, oops)
  \/ DrainEnd

SpecRace == InitBoot /\ [][NextRace]_vars

\* fair scheduling: a registration that has linked its node goes on to
\* publish it, a drain that has begun goes on
SpecRaceFair ==
  /\ SpecRace
  /\ \A t \in Threads : WF_vars(RegisterPublish(t))
  /\ WF_vars(\E err \in {0, -EIO} : DrainStep(err, FALSE))
  /\ WF_vars(DrainEnd)

(* ------------ the bring-up with its calls on record -------------------- *)
\* a call of m4sensorhub_initialize and what its callees returned
InitializeCall(firmware, status, err) ==
  /\ Initialize(firmware, status, err)
  /\ last' = [op |-> "initialize", firmware |-> firmware,
              status |-> status, err |-> err]

NextBringup ==
  \/ \E f \in InitFuncs, n \in NodeIds \cup {NULL} : RegisterInitcall(f, DD, n)
  \/ \E f \in InitFuncs : UnregisterInitcall(f)
  \/ \E hit \in BOOLEAN, oops \in BOOLEAN : UnregisterStep(hit, oops)
  \/ UnregisterReturn
  \/ \E firmware \in {NULL, DD}, status \in {0, -EIO}, err \in {0, -EIO} :
       InitializeCall(firmware, status, err)
  \/ \E err \in {0, -EIO}, oops \in BOOLEAN : DrainStep(err, oops)
  \/ DrainEnd

SpecBringup == InitBoot /\ [][NextBringup]_vars


(* --------------------------- pedometer client -------------------------- *)
PedEvents == {"M4SH_IRQ_PEDOMETER_DATA_READY", "M4SH_IRQ_ACTIVITY_CHANGE"}

\* rates written to the pedometer's setrate attribute, and what a call into
\* the hub returns: 0 or an error
PedRequests == {-1} \cup (0..MaxRate)
CallRets == {0, -EIO}

\* what m4ped_read_report_data returns: 0, the error of a failed read or
\* -EBADE for a short one
ReadRets == {0, -EIO, -EBADE}

\* m4sensorhub_irq_enable / m4sensorhub_irq_disable: the bus write of the
\* enable bit of the event; r is what it returns
IrqEnable(en, irq, r) == IF r < 0 THEN en ELSE en \cup {irq}
IrqDisable(en, irq, r) == IF r < 0 THEN en ELSE en \ {irq}

\* m4ped_set_samplerate(iio, rate) on the record p; e1 and e2 are what the
\* two enable (or disable) calls return if they are made, rd what
\* m4ped_read_report_data returns
M4pedSetSamplerate(p, rate, e1, e2, rd) ==
  LET p1 == [p EXCEPT !.samplerate = rate, !.reports = 0,
                      !.call = [op |-> "set", rate |-> rate, err |-> 0]]
      ped_on == IrqEnable(p.enabled, "M4SH_IRQ_PEDOMETER_DATA_READY", e1)
      act_on == IrqEnable(ped_on, "M4SH_IRQ_ACTIVITY_CHANGE", e2)
      ped_off == IrqDisable(p.enabled, "M4SH_IRQ_PEDOMETER_DATA_READY", e1)
      act_off == IrqDisable(ped_off, "M4SH_IRQ_ACTIVITY_CHANGE", e2)
  IN  IF rate >= 0
        THEN IF ~p.irq_enabled
               THEN IF e1 < 0
                      THEN [p1 EXCEPT !.enabled = ped_on, !.call.err = e1]
                      ELSE IF e2 < 0
                             THEN [p1 EXCEPT !.enabled = act_on,
                                             !.call.err = e2]
                             ELSE [p1 EXCEPT
                                     !.enabled = act_on,
                                     !.irq_enabled = TRUE,
                                     !.reports = IF rd < 0 THEN 0 ELSE 1,
                                     !.call.err = IF rd < 0 THEN rd ELSE 0]
               ELSE p1
        ELSE IF p.irq_enabled
               THEN IF e1 < 0
                      THEN [p1 EXCEPT !.enabled = ped_off, !.call.err = e1]
                      ELSE IF e2 < 0
                             THEN [p1 EXCEPT !.enabled = act_off,
                                             !.call.err = e2]
                             ELSE [p1 EXCEPT !.enabled = act_off,
                                             !.irq_enabled = FALSE]
               ELSE p1

\* m4ped_driver_init, called by the drain of m4sensorhub_initialize:
\* m4ped_isr is registered for the two events
PedDriverInit ==
  /\ ped.state = "probed"
  /\ ped' = [ped EXCEPT !.state = "attached",
                        !.call = [op |-> "init", rate |-> 0, err |-> 0]]
  /\ UNCHANGED <<panicvars, hub, mode, initvars, last, irqvars, racer, client, mpu, sens, ddmutex, als>>

\* m4ped_setrate_store under dd->mutex: a valid value goes to
\* m4ped_set_samplerate
PedSetrateStore(value, e1, e2, rd) ==
  /\ ped.state = "attached"
  /\ ped' = M4pedSetSamplerate(ped, value, e1, e2, rd)
  /\ UNCHANGED <<panicvars, hub, mode, initvars, last, irqvars, racer, client, mpu, sens, ddmutex, als>>

\* m4ped_isr under dd->mutex, for an event that is enabled in the hub:
\* m4ped_read_report_data
PedIsr(irq, rd) ==
  /\ ped.state = "attached"
  /\ irq \in ped.enabled
  /\ ped' = [ped EXCEPT !.reports = IF rd < 0 THEN 0 ELSE 1,
                        !.call = [op |-> irq, rate |-> 0, err |-> rd]]
  /\ UNCHANGED <<panicvars, hub, mode, initvars, last, irqvars, racer, client, mpu, sens, ddmutex, als>>

\* m4ped_remove under dd->mutex: if the bit is set both events are
\* disabled, whatever the calls return, and the bit is cleared; the events
\* are unregistered and dd is freed
PedRemove(e1, e2) ==
  /\ ped.state # "removed"
  /\ ped' = [ped EXCEPT
               !.state = "removed",
               !.enabled =
                 IF ped.irq_enabled
                   THEN IrqDisable(
                          IrqDisable(ped.enabled,
                                     "M4SH_IRQ_PEDOMETER_DATA_READY", e1),
                          "M4SH_IRQ_ACTIVITY_CHANGE", e2)
                   ELSE ped.enabled,
               !.irq_enabled = FALSE,
               !.call = [op |-> "remove", rate |-> 0, err |-> 0]]
  /\ UNCHANGED <<panicvars, hub, mode, initvars, last, irqvars, racer, client, mpu, sens, ddmutex, als>>

NextPed ==
  \/ PedDriverInit
  \/ \E value \in PedRequests, e1 \in CallRets, e2 \in CallRets,
        rd \in ReadRets : PedSetrateStore(value, e1, e2, rd)
  \/ \E irq \in PedEvents, rd \in ReadRets : PedIsr(irq, rd)
  \/ \E e1 \in CallRets, e2 \in CallRets : PedRemove(e1, e2)

SpecPed == Init /\ [][NextPed]_vars


(* -------------------------- light sensor client ------------------------ *)
\* m4als_probe: dd is allocated, the init call registered
AlsProbe ==
  /\ als.state = "unbound"
  /\ als' = [als EXCEPT !.state = "probed"]
  /\ UNCHANGED <<panicvars, hub, mode, initvars, last, irqvars, racer, client, mpu, sens, ped, ddmutex>>

\* m4als_driver_init, called by the drain of m4sensorhub_initialize:
\* m4sensorhub_irq_register(M4SH_IRQ_LIGHTSENSOR_DATA_READY, m4als_isr, dd);
\* if it fails the init has failed
AlsDriverInit ==
  /\ als.state = "probed"
  /\ IrqRegister(M4SH_IRQ_LIGHTSENSOR_DATA_READY, M4ALS_ISR, DD)
  /\ als' = [als EXCEPT !.state =
              IF irqtable[M4SH_IRQ_LIGHTSENSOR_DATA_READY].callback = NULL
                THEN "attached" ELSE "probed"]

\* m4als_enable_store under dd->mutex: 1 enables the data-ready event if
\* the IRQ_ENABLED bit is clear, 0 disables it if the bit is set; r is
\* what the call returns
AlsEnableStore(value, r) ==
  /\ als.state = "attached"
  /\ als' = IF (value = 1) = als.irq_enabled
              THEN als
              ELSE IF r < 0
                     THEN als
                     ELSE [als EXCEPT
                             !.irq_enabled = (value = 1),
                             !.enabled =
                               IF value = 1
                                 THEN IrqEnable(als.enabled,
                                        M4SH_IRQ_LIGHTSENSOR_DATA_READY, r)
                                 ELSE IrqDisable(als.enabled,
                                        M4SH_IRQ_LIGHTSENSOR_DATA_READY, r)]
  /\ UNCHANGED <<panicvars, hub, mode, initvars, last, irqvars, racer, client, mpu, sens, ped, ddmutex>>

\* m4als_remove: if the IRQ_ENABLED bit is set
\* m4sensorhub_irq_disable(M4SH_IRQ_PRESSURE_DATA_READY), its result
\* dropped, and the bit is cleared;
\* m4sensorhub_irq_unregister(M4SH_IRQ_PRESSURE_DATA_READY), kfree(dd)
AlsRemove(r) ==
  /\ als.state \in {"probed", "attached"}
  /\ IrqUnregister(M4SH_IRQ_PRESSURE_DATA_READY)
  /\ als' = [als EXCEPT
               !.state = "removed",
               !.irq_enabled = FALSE,
               !.enabled = IF als.irq_enabled
                             THEN IrqDisable(als.enabled,
                                    M4SH_IRQ_PRESSURE_DATA_READY, r)
                             ELSE als.enabled]

NextAls ==
  \/ AlsProbe
  \/ AlsDriverInit
  \/ \E value \in {0, 1}, r \in CallRets : AlsEnableStore(value, r)
  \/ \E r \in CallRets : AlsRemove(r)
  \/ \E m \in SUBSET (0..NumEvents) : IrqRaise(m) /\ UNCHANGED als
  \/ IrqDispatch /\ UNCHANGED als
  \/ IrqHandlerReturn /\ UNCHANGED als
  \/ IrqDone /\ UNCHANGED als

SpecAls == Init /\ [][NextAls]_vars


(* ---------------- client mutex, bus lock and panic-data lock ----------- *)
\* mutant: the entry point takes the bus access lock before the mutex
ClientCall_BusFirst(t) ==
  /\ pc[t] = "idle"
  /\ reg_access = NULL
  /\ reg_access' = t
  /\ pc' = [pc EXCEPT ![t] = "ce_enter"]
  /\ UNCHANGED <<paniclock, funcs, wire, i, ret, handler, arg, trace, dirty,
                 ddmutex>>
  /\ UNCHANGED <<hub, mode, initvars, last, irqvars, racer, client, mpu, sens, ped, als>>

\* a thread calls m4acc_setrate_store (or another entry point that does a
\* register transfer): it is at mutex_lock(&dd->mutex)
ClientCall(t) ==
  /\ pc[t] = "idle"
  /\ pc' = [pc EXCEPT ![t] = "ce_enter"]
  /\ UNCHANGED <<reg_access, paniclock, funcs, wire, i, ret, handler, arg,
                 trace, dirty, ddmutex>>
  /\ UNCHANGED <<hub, mode, initvars, last, irqvars, racer, client, mpu, sens, ped, als>>

\* mutex_lock(&dd->mutex) returns
ClientLock(t) ==
  /\ pc[t] = "ce_enter"
  /\ ddmutex = NULL
  /\ ddmutex' = t
  /\ pc' = [pc EXCEPT ![t] = "ce_locked"]
  /\ UNCHANGED <<reg_access, paniclock, funcs, wire, i, ret, handler, arg,
                 trace, dirty>>
  /\ UNCHANGED <<hub, mode, initvars, last, irqvars, racer, client, mpu, sens, ped, als>>

\* m4sensorhub_reg_write under dd->mutex: the bus access lock is taken
ClientRegBegin(t) ==
  /\ pc[t] = "ce_locked"
  /\ reg_access = NULL
  /\ reg_access' = t
  /\ wire' = wire \cup {<<t, "reg">>}
  /\ pc' = [pc EXCEPT ![t] = "ce_xfer"]
  /\ UNCHANGED <<paniclock, funcs, i, ret, handler, arg, trace, dirty,
                 ddmutex>>
  /\ UNCHANGED <<hub, mode, initvars, last, irqvars, racer, client, mpu, sens, ped, als>>

\* the transfer ends, the bus access lock is released
ClientRegEnd(t) ==
  /\ pc[t] = "ce_xfer"
  /\ reg_access' = NULL
  /\ wire' = wire \ {<<t, "reg">>}
  /\ pc' = [pc EXCEPT ![t] = "ce_done"]
  /\ UNCHANGED <<paniclock, funcs, i, ret, handler, arg, trace, dirty,
                 ddmutex>>
  /\ UNCHANGED <<hub, mode, initvars, last, irqvars, racer, client, mpu, sens, ped, als>>

\* mutex_unlock(&dd->mutex), the entry point returns
ClientUnlock(t) ==
  /\ pc[t] = "ce_done"
  /\ ddmutex' = NULL
  /\ pc' = [pc EXCEPT ![t] = "idle"]
  /\ UNCHANGED <<reg_access, paniclock, funcs, wire, i, ret, handler, arg,
                 trace, dirty>>
  /\ UNCHANGED <<hub, mode, initvars, last, irqvars, racer, client, mpu, sens, ped, als>>

\* m4acc_driver_init is called: it is at mutex_lock(&dd->mutex)
DriverInitCall(t) ==
  /\ pc[t] = "idle"
  /\ pc' = [pc EXCEPT ![t] = "di_enter"]
  /\ UNCHANGED <<reg_access, paniclock, funcs, wire, i, ret, handler, arg,
                 trace, dirty, ddmutex>>
  /\ UNCHANGED <<hub, mode, initvars, last, irqvars, racer, client, mpu, sens, ped, als>>

\* mutex_lock(&dd->mutex) returns
DriverInitLock(t) ==
  /\ pc[t] = "di_enter"
  /\ ddmutex = NULL
  /\ ddmutex' = t
  /\ pc' = [pc EXCEPT ![t] = "di_locked"]
  /\ UNCHANGED <<reg_access, paniclock, funcs, wire, i, ret, handler, arg,
                 trace, dirty>>
  /\ UNCHANGED <<hub, mode, initvars, last, irqvars, racer, client, mpu, sens, ped, als>>

\* m4sensorhub_panic_register(PANICHDL_ACCEL_RESTORE, m4acc_panic_restore,
\* dd) under dd->mutex: the panic-data lock is taken, an empty slot gets
\* the callback
DriverInitRegister(t) ==
  /\ pc[t] = "di_locked"
  /\ paniclock = NULL
  /\ paniclock' = t
  /\ IF funcs[PANICHDL_ACCEL_RESTORE].callback = NULL
       THEN /\ funcs' = [funcs EXCEPT ![PANICHDL_ACCEL_RESTORE].callback =
                                        M4ACC_PANIC_RESTORE]
            /\ arg' = [arg EXCEPT ![t] = <<PANICHDL_ACCEL_RESTORE,
                                           M4ACC_PANIC_RESTORE, DD>>]
            /\ dirty' = Touch(PANICHDL_ACCEL_RESTORE)
       ELSE UNCHANGED <<funcs, arg, dirty>>
  /\ pc' = [pc EXCEPT ![t] = "di_reg"]
  /\ UNCHANGED <<reg_access, wire, i, ret, handler, trace, ddmutex>>
  /\ UNCHANGED <<hub, mode, initvars, last, irqvars, racer, client, mpu, sens, ped, als>>

\* the data is stored if the slot was empty, the panic-data lock is
\* released and m4sensorhub_panic_register returns
DriverInitRegistered(t) ==
  /\ pc[t] = "di_reg"
  /\ IF arg[t] # NoArg
       THEN /\ funcs' = [funcs EXCEPT ![arg[t][1]].data = arg[t][3]]
            /\ dirty' = Touch(arg[t][1])
       ELSE UNCHANGED <<funcs, dirty>>
  /\ arg' = [arg EXCEPT ![t] = NoArg]
  /\ paniclock' = NULL
  /\ pc' = [pc EXCEPT ![t] = "di_done"]
  /\ UNCHANGED <<reg_access, wire, i, ret, handler, trace, ddmutex>>
  /\ UNCHANGED <<hub, mode, initvars, last, irqvars, racer, client, mpu, sens, ped, als>>

\* mutex_unlock(&dd->mutex), m4acc_driver_init returns
DriverInitUnlock(t) ==
  /\ pc[t] = "di_done"
  /\ ddmutex' = NULL
  /\ pc' = [pc EXCEPT ![t] = "idle"]
  /\ UNCHANGED <<reg_access, paniclock, funcs, wire, i, ret, handler, arg,
                 trace, dirty>>
  /\ UNCHANGED <<hub, mode, initvars, last, irqvars, racer, client, mpu, sens, ped, als>>

\* m4acc_panic_restore, called by the walk with its dd:
\* mutex_lock(&dd->mutex) returns
RestoreLock(t) ==
  /\ pc[t] = "cb_body"
  /\ RestoreWritesHub(handler[t])
  /\ ddmutex = NULL
  /\ ddmutex' = t
  /\ pc' = [pc EXCEPT ![t] = "cb_locked"]
  /\ UNCHANGED <<reg_access, paniclock, funcs, wire, i, ret, handler, arg,
                 trace, dirty>>
  /\ UNCHANGED <<hub, mode, initvars, last, irqvars, racer, client, mpu, sens, ped, als>>

\* m4sensorhub_reg_write of the sample rate: the bus access lock is taken
RestoreRegBegin(t) ==
  /\ pc[t] = "cb_locked"
  /\ reg_access = NULL
  /\ reg_access' = t
  /\ wire' = wire \cup {<<t, "reg">>}
  /\ pc' = [pc EXCEPT ![t] = "cb_write"]
  /\ UNCHANGED <<paniclock, funcs, i, ret, handler, arg, trace, dirty,
                 ddmutex>>
  /\ UNCHANGED <<hub, mode, initvars, last, irqvars, racer, client, mpu, sens, ped, als>>

\* the transfer ends, the bus access lock is released
RestoreRegEnd(t) ==
  /\ pc[t] = "cb_write"
  /\ reg_access' = NULL
  /\ wire' = wire \ {<<t, "reg">>}
  /\ pc' = [pc EXCEPT ![t] = "cb_done"]
  /\ UNCHANGED <<paniclock, funcs, i, ret, handler, arg, trace, dirty,
                 ddmutex>>
  /\ UNCHANGED <<hub, mode, initvars, last, irqvars, racer, client, mpu, sens, ped, als>>

\* mutex_unlock(&dd->mutex), the callback returns; i++
RestoreUnlock(t) ==
  /\ pc[t] = "cb_done"
  /\ ddmutex' = NULL
  /\ i' = [i EXCEPT ![t] = i[t] + 1]
  /\ handler' = [handler EXCEPT ![t] = EmptySlot]
  /\ pc' = [pc EXCEPT ![t] = "pp_walk"]
  /\ UNCHANGED <<reg_access, paniclock, funcs, wire, ret, arg, trace, dirty>>
  /\ UNCHANGED <<hub, mode, initvars, last, irqvars, racer, client, mpu, sens, ped, als>>

NextLocks ==
  \/ HubPanics
  \/ \E t \in Threads : ClientCall(t)
  \/ \E t \in Threads : ClientLock(t)
  \/ \E t \in Threads : ClientRegBegin(t)
  \/ \E t \in Threads : ClientRegEnd(t)
  \/ \E t \in Threads : ClientUnlock(t)
  \/ \E t \in Threads : DriverInitCall(t)
  \/ \E t \in Threads : DriverInitLock(t)
  \/ \E t \in Threads : DriverInitRegister(t)
  \/ \E t \in Threads : DriverInitRegistered(t)
  \/ \E t \in Threads : DriverInitUnlock(t)
  \/ \E t \in Threads, index \in PanicIndex :
       PanicUnregister(t, index) /\ UNCHANGED last
  \/ \E t \in Threads : PanicUnregisterData(t) /\ UNCHANGED last
  \/ \E t \in Threads : PP_Begin(t)
  \/ \E t \in Threads : PP_CheckEnd(t)
  \/ \E t \in Threads : PP_Reset(t)
  \/ \E t \in Threads : PP_Load(t)
  \/ \E t \in Threads : PP_AfterLoad(t)
  \/ \E t \in Threads : PP_ReadCallback(t)
  \/ \E t \in Threads : PP_ReadData(t)
  \/ \E t \in Threads : CallbackReturn(t)
  \/ \E t \in Threads : RestoreLock(t)
  \/ \E t \in Threads : RestoreRegBegin(t)
  \/ \E t \in Threads : RestoreRegEnd(t)
  \/ \E t \in Threads : RestoreUnlock(t)
  \/ \E t \in Threads : PP_Return(t)

SpecLocks == Init /\ [][NextLocks]_vars

(* ======================= claims on panic_process ======================= *)
\* the indices of the callbacks a run has called, in calling order
Called(t) ==
  LET calls == SelectSeq(trace[t], LAMBDA e : e[1] = "call")
  IN  [k \in 1..Len(calls) |-> calls[k][2]]

SeqRange(q) == {q[k] : k \in 1..Len(q)}

\* the slots the walk of t is through with
Visited(t) ==
  {x \in PanicIndex :
     \/ pc[t] \in {"pp_walk", "pp_read"} /\ x < i[t]
     \/ pc[t] \in {"cb_body", "cb_xfer"} /\ x <= i[t]}

\* a recovery has begun and its callback walk has not finished
InRecovery(t) ==
  \/ pc[t] \in {"pp_reset", "pp_load", "pp_loaded", "pp_read", "cb_body",
                "cb_xfer"}
  \/ pc[t] = "pp_walk" /\ i[t] < PANICHDL_MAX

\* C1: register reads and writes and the panic handoff command never
\* overlap on the bus: at most one of them is in flight at any time.
C1_NoOverlap ==
  \A x \in wire, y \in wire :
    (x[2] \in {"reg", "panic"} /\ y[2] \in {"reg", "panic"}) => x = y

\* C1 witness: a recovery callback has to write a register while another
\* thread has the panic handoff command on the bus.
C1_Witness ==
  \E t \in Threads, u \in Threads :
    /\ t # u
    /\ <<t, "panic">> \in wire
    /\ pc[u] = "cb_body" /\ RestoreWritesHub(handler[u])

\* C2: after a confirmed panic and a successful reload the populated slots
\* are called once each in ascending index order, the IRQ restore slot
\* last: at every point of the walk the calls made are strictly ascending
\* and, among the slots the walk is through with and nobody rewrote
\* meanwhile, exactly the populated ones were called.
C2_AscendingOnce ==
  \A t \in Threads :
    LET c == Called(t) IN
      /\ \A k \in 1..Len(c) : \A m \in 1..Len(c) : k < m => c[k] < c[m]
      /\ PANICHDL_IRQ_RESTORE \in SeqRange(c) =>
           c[Len(c)] = PANICHDL_IRQ_RESTORE
      /\ \A x \in Visited(t) \ dirty[t] :
           (x \in SeqRange(c)) <=> (funcs[x].callback # NULL)

\* C2 witness: a walk is over, both slots were called in order, and the
\* first callback had its data, so it wrote a register on the way.
C2_Witness ==
  \E t \in Threads :
    /\ pc[t] = "pp_walk" /\ i[t] = PANICHDL_MAX
    /\ dirty[t] = {}
    /\ Called(t) = <<PANICHDL_DISPLAY_RESTORE, PANICHDL_IRQ_RESTORE>>
    /\ funcs[PANICHDL_DISPLAY_RESTORE].data # NULL

\* C3: an answer of the wrong length or the wrong value ends the run: no
\* reset, no reload, no callback, the mode as it was, the bus access lock
\* released.
C3_FalseAlarm ==
  /\ [](\A t \in Threads :
          (trace[t] # <<>> /\ trace[t][1] = <<"check", FALSE>>) =>
             /\ pc[t] = "pp_done"
             /\ Len(trace[t]) = 1
             /\ reg_access # t
             /\ i[t] = 0)
  /\ [][\A t \in Threads :
          (pc[t] = "pp_xfer" /\ pc'[t] = "pp_done") =>
             (mode' = mode /\ hub' = hub /\ funcs' = funcs)]_vars

\* C3 witness: a panicked hub gave a wrong answer and the run is over.
C3_Witness ==
  \E t \in Threads :
    pc[t] = "pp_done" /\ trace[t] = << <<"check", FALSE>> >> /\ hub = "panicked"

\* C4: no second recovery begins while the callback walk of a first one
\* is not over.
C4_SingleRecovery ==
  \A t \in Threads, u \in Threads :
    (t # u) => ~(InRecovery(t) /\ InRecovery(u))

\* C5: from the panic handoff command to the end of the reload the thread
\* holds the bus access lock, and between the confirmed check and the end
\* of the reload nobody else has a transaction on the bus.
C5_LockCoversReload ==
  \A t \in Threads :
    /\ pc[t] \in {"pp_xfer", "pp_reset", "pp_load", "pp_loaded"} =>
         reg_access = t
    /\ pc[t] \in {"pp_reset", "pp_load", "pp_loaded"} =>
         \A x \in wire : x[1] = t

\* C6: a failed reload is fatal and nothing else is: the thread ends in
\* BUG() after one reset and one reload and no callback, it stays there
\* with the lock and the hub stays down; BUG() is entered from a failed
\* reload alone.
C6_FatalReload ==
  /\ [](\A t \in Threads :
          pc[t] = "BUG" =>
            /\ ret[t] < 0
            /\ trace[t] = << <<"check", TRUE>>, <<"reset">>, <<"load">> >>
            /\ reg_access = t
            /\ hub = "boot")
  /\ [][\A t \in Threads :
          /\ (pc[t] = "pp_loaded" /\ ret[t] < 0) =>
               pc'[t] \in {"pp_loaded", "BUG"}
          /\ pc[t] = "BUG" => pc'[t] = "BUG"
          /\ (pc'[t] = "BUG" /\ pc[t] # "BUG") =>
               (pc[t] = "pp_loaded" /\ ret[t] < 0)]_vars

\* C6 witness: a thread is in BUG().
C6_Witness == \E t \in Threads : pc[t] = "BUG"

\* C7: a recovery callback runs in a thread that holds neither the bus
\* access lock nor the panic data lock.
C7_NoLockInCallback ==
  \A t \in Threads :
    pc[t] \in {"cb_body", "cb_xfer"} =>
      /\ paniclock # t
      /\ pc[t] = "cb_body" => reg_access # t

\* C7 witness: a callback took the bus access lock and its register write
\* is on the bus.
C7_Witness ==
  \E t \in Threads : pc[t] = "cb_xfer" /\ <<t, "reg">> \in wire

(* ==================== claims on the init-call list ==================== *)
RECURSIVE ListFrom(_, _)
\* the nodes met by following next from n, at most fuel of them
ListFrom(n, fuel) ==
  IF n = NULL \/ fuel = 0
    THEN <<>>
    ELSE <<n>> \o ListFrom(nodes[n].next, fuel - 1)

\* the list as the code walks it from inithead
InitList == ListFrom(inithead, MaxRegs + 1)

Reverse(q) == [k \in 1..Len(q) |-> q[Len(q) + 1 - k]]

Firsts(q) == [k \in 1..Len(q) |-> q[k][1]]

\* C8: when the drain of the first successful bring-up is over, the calls
\* made are those of the registered nodes, once each, the last registered
\* first, whatever the callbacks returned.
C8_DrainReverseOnce ==
  (ipc = "dr_loop" /\ inc = NULL /\ drains = 0) =>
     Firsts(invoked) = Reverse(Firsts(registered))

\* C9: once a drain is over, no node that was freed can be reached from
\* the head of the list by whoever comes next.
C9_NothingFreedReachable ==
  (ipc = "idle" /\ drains > 0) =>
     \A k \in 1..Len(InitList) : nodes[InitList[k]].st = "live"

\* C10: when the loop of m4sensorhub_unregister_initcall is over (no drain
\* has run yet), the list holds the nodes that do not match, all of them
\* live, in the order they had.
C10_UnregisterRemovesAll ==
  (ipc = "un_loop" /\ node = NULL /\ drains = 0) =>
     /\ \A k \in 1..Len(InitList) :
          /\ nodes[InitList[k]].st = "live"
          /\ nodes[InitList[k]].initcb # target
     /\ [k \in 1..Len(InitList) |-> nodes[InitList[k]].reg] =
          Reverse(Firsts(registered))

(* =================== claims on the panic registry ===================== *)
\* this step is a call of op that went past its argument check and its
\* mutex_lock, or that returned at once
IsCall(op) ==
  /\ last'.op = op
  /\ \/ last' # last
     \/ pc[last'.t] = "idle" /\ pc'[last'.t] # "idle"

ValidRegister(c) == c.index < PANICHDL_MAX /\ c.cb_func # NULL

\* C11: m4sensorhub_panic_register on an occupied slot returns -EPERM and
\* changes nothing; on an empty slot it returns 0 and, when it is through,
\* the slot holds the given callback and data and no other slot changed.
C11_RegisterNeverOverwrites ==
  [][/\ (IsCall("register") /\ ValidRegister(last')) =>
          IF funcs[last'.index].callback # NULL
            THEN /\ last'.ret = -EPERM
                 /\ UNCHANGED <<funcs, pc, paniclock>>
            ELSE /\ last'.ret = 0
                 /\ pc'[last'.t] = "pr_data"
                 /\ arg'[last'.t] = <<last'.index, last'.cb_func, last'.data>>
     /\ \A t \in Threads :
          (pc[t] = "pr_data" /\ pc'[t] = "idle") =>
             funcs' = [funcs EXCEPT ![arg[t][1]] =
                         [callback |-> arg[t][2], data |-> arg[t][3]]]
    ]_vars

\* C11 witness: a register came back with -EPERM and the slot holds a
\* callback and data other than the ones that call brought.
C11_Witness ==
  /\ last.op = "register" /\ last.ret = -EPERM
  /\ funcs[last.index].callback \notin {NULL, last.cb_func}
  /\ funcs[last.index].data # last.data

\* C12: m4sensorhub_panic_unregister with a valid index returns 0 and
\* leaves the slot empty whether or not it was populated; on an empty slot
\* it changes nothing (a second unregister leaves what the first left);
\* the register that follows it on that index returns 0.
C12_UnregisterIdempotent ==
  [][/\ (IsCall("unregister") /\ last'.index < PANICHDL_MAX) =>
          /\ last'.ret = 0
          /\ funcs'[last'.index].callback = NULL
          /\ pc'[last'.t] = "pu_data"
          /\ arg'[last'.t][1] = last'.index
          /\ funcs[last'.index] = EmptySlot => funcs' = funcs
     /\ \A t \in Threads :
          (pc[t] = "pu_data" /\ pc'[t] = "idle") =>
             funcs' = [funcs EXCEPT ![arg[t][1]] = EmptySlot]
     /\ ( /\ IsCall("register") /\ ValidRegister(last')
          /\ last.op = "unregister" /\ last.ret = 0
          /\ last.index = last'.index ) => last'.ret = 0
    ]_vars

\* C12 witness: an unregister is through, its slot is empty and the other
\* slot is still populated.
C12_Witness ==
  /\ last.op = "unregister" /\ last.ret = 0
  /\ pc[last.t] = "idle"
  /\ funcs[last.index] = EmptySlot
  /\ \E x \in PanicIndex : x # last.index /\ funcs[x].data # NULL

(* ================ claims on the interrupt dispatch table =============== *)
\* C13: an event id holds one callback: a register on an event that has
\* one fails with AlreadyRegistered and leaves the table as it is; on a
\* free event it stores the pair; the register that follows an unregister
\* of that event succeeds.
C13_OneCallbackPerEvent ==
  [][(irqlast'.op = "register" /\
        (irqlast' # irqlast \/ irqtable' # irqtable)) =>
       /\ IF irqtable[irqlast'.irq].callback # NULL
            THEN /\ irqlast'.ret = "AlreadyRegistered"
                 /\ irqtable' = irqtable
            ELSE /\ irqlast'.ret = "Ok"
                 /\ irqtable' = [irqtable EXCEPT ![irqlast'.irq] =
                                   [callback |-> irqlast'.cb_func,
                                    data |-> irqlast'.data]]
       /\ (irqlast.op = "unregister" /\ irqlast.irq = irqlast'.irq) =>
            irqlast'.ret = "Ok"
    ]_vars

\* C13 witness: a register failed with AlreadyRegistered and the event
\* still has the context of the first registration, not the one offered.
C13_Witness ==
  /\ irqlast.op = "register" /\ irqlast.ret = "AlreadyRegistered"
  /\ irqtable[irqlast.irq].callback # NULL
  /\ irqtable[irqlast.irq].data # irqlast.data

\* the entries of the dispatch history that are about event n
IrqCallsOf(n) == SelectSeq(irqtrace, LAMBDA e : e[1] = n)

\* C14: in a dispatch, a pending event that has been looked at and whose
\* slot nobody rewrote since was called once with (event, context) if its
\* slot holds a callback and not at all otherwise, nothing that is not
\* pending is called, and the panic check is not entered; an interrupt with
\* no recognised pending event enters the panic check once and calls no
\* handler.
C14_DispatchOnce ==
  IF mask \cap IrqIds = {}
    THEN irqtrace = IF mask = {} THEN <<>>
                    ELSE << <<"panic_process", NULL, NULL>> >>
    ELSE /\ \A k \in 1..Len(irqtrace) :
              irqtrace[k][1] \in (mask \cap IrqIds) \ pending
         /\ \A n \in IrqIds : Len(IrqCallsOf(n)) <= 1
         /\ \A n \in ((mask \cap IrqIds) \ pending) \ irqdirty :
              IF irqtable[n].callback # NULL
                THEN IrqCallsOf(n) =
                       << <<n, irqtable[n].callback, irqtable[n].data>> >>
                ELSE IrqCallsOf(n) = <<>>

\* C14 witness: a dispatch of two pending events is over; both handlers
\* ran, each with its own context.
C14_Witness ==
  /\ mask \cap IrqIds = {0, 1} /\ pending = {} /\ cur = NoHandler
  /\ irqdirty = {}
  /\ Len(irqtrace) = 2
  /\ irqtrace[1][3] # irqtrace[2][3]

(* ===================== claims on the bus and the mode ================== *)
\* C15: every raw command, the test command included, is on the wire only
\* while its thread holds the bus access lock, and never together with a
\* register read or write or the panic check of another thread.
C15_RawUnderLock ==
  /\ \A x \in wire : reg_access = x[1]
  /\ \A x \in wire, y \in wire : x = y

\* C16: the mode field of the hub is written only by a step taken while
\* the bus access lock is held.
C16_ModeWrittenUnderLock ==
  [][mode' # mode => reg_access # NULL]_vars

(* ================== claims on the phases of a recovery ================= *)
\* the phase of the state machine thread t is in
Phase(t) ==
  CASE pc[t] = "pp_xfer" -> "Checking"
    [] pc[t] = "pp_reset" -> "Resetting"
    [] pc[t] \in {"pp_load", "pp_loaded"} -> "ReloadingFirmware"
    [] pc[t] \in {"pp_walk", "pp_read", "cb_body", "cb_xfer"} -> "Recovering"
    [] pc[t] = "BUG" -> "Fatal"
    [] OTHER -> "Normal"

\* the arrows of the state machine, with the abort out of the reload
PhaseArrows ==
  {<<"Normal", "Checking">>, <<"Checking", "Normal">>,
   <<"Checking", "Resetting">>, <<"Resetting", "ReloadingFirmware">>,
   <<"ReloadingFirmware", "Recovering">>, <<"ReloadingFirmware", "Fatal">>,
   <<"Recovering", "Normal">>}

\* what the run of t has done so far, callbacks left out
Done(t) == SelectSeq(trace[t], LAMBDA e : e[1] # "call")

\* C17: a run of panic_process moves along Normal -> Checking -> {Normal,
\* Resetting -> ReloadingFirmware -> Recovering -> Normal} only (or aborts
\* out of the reload): a reset is done after one confirmed check, a reload
\* after one reset, a callback is called only after one reload that
\* succeeded, and nothing is done twice or out of order.
C17_PhaseOrder ==
  /\ [](\A t \in Threads :
          /\ Phase(t) = "Checking" => trace[t] = <<>>
          /\ Phase(t) = "Resetting" =>
               trace[t] = << <<"check", TRUE>> >>
          /\ pc[t] = "pp_load" =>
               trace[t] = << <<"check", TRUE>>, <<"reset">> >>
          /\ pc[t] \in {"pp_loaded", "BUG"} =>
               trace[t] = << <<"check", TRUE>>, <<"reset">>, <<"load">> >>
          /\ Phase(t) = "Recovering" =>
               /\ Done(t) = << <<"check", TRUE>>, <<"reset">>, <<"load">> >>
               /\ ret[t] = 0
               /\ \A k \in 1..Len(trace[t]) :
                    trace[t][k][1] = "call" => k > 3
          /\ Called(t) # <<>> => Phase(t) = "Recovering")
  /\ [][\A t \in Threads :
          Phase(t)' # Phase(t) => <<Phase(t), Phase(t)'>> \in PhaseArrows]_vars

\* C17 witness: a run went through check, reset and reload, called a
\* callback and is at the end of its walk, about to return.
C17_Witness ==
  \E t \in Threads :
    /\ pc[t] = "pp_walk" /\ i[t] = PANICHDL_MAX
    /\ Len(trace[t]) >= 4
    /\ trace[t][2] = <<"reset">> /\ trace[t][3] = <<"load">>
    /\ trace[t][4][1] = "call"

\* C18: under fair scheduling, with every external operation and callback
\* returning, a run of panic_process that has started its check returns
\* (false alarm, or callback walk over) or the fatal abort is reached.
C18_RunTerminates ==
  \A t \in Threads :
    (pc[t] = "pp_xfer") ~> (pc[t] = "idle" \/ \E u \in Threads : pc[u] = "BUG")

\* C18 witness: a callback of a walk waits for the bus access lock while
\* another thread holds it.
C18_Witness ==
  \E t \in Threads, u \in Threads :
    /\ t # u
    /\ pc[t] = "cb_body" /\ RestoreWritesHub(handler[t])
    /\ reg_access = u

(* ====================== claims on the client drivers ================== *)
\* C19: the panic slot of a client holds the client's callback only while
\* the client is attached, and no run of panic_process is inside the
\* callback of a client that is not attached.
C19_SlotOnlyWhileAttached ==
  \A c \in Clients :
    /\ funcs[ClientSlot(c)].callback = c => client[c] = "attached"
    /\ \A t \in Threads :
         (pc[t] \in {"cb_body", "cb_xfer"} /\ handler[t].callback = c) =>
            client[c] = "attached"

\* C20: when the recovery callback of the mpu9150 client has run after a
\* reset and reload, the hub's sample-rate register of each of accel, gyro
\* and compass holds the client's stored sample rate.
C20_RestoreWritesRates ==
  mpu.phase = "restored" =>
    \A ty \in MpuTypes : mpu.hubrate[ty] = mpu.samplerate[ty]

(* =================== claims on the polled sensor clients =============== *)
\* a step of the polled client that is the call op
SensCall(op) == sens'.call.op = op /\ sens' # sens

\* C21: the recovery callback of the accelerometer and of the gyro hands
\* the stored samplerate, whatever its value, to a write of the client's
\* sample-rate register (which then holds it if the write went through),
\* leaves poll work pending if and only if the stored samplerate is > 0,
\* and does not change the stored samplerate.
C21_RestoreRewritesRate ==
  [][SensCall("restore") =>
       /\ sens'.call.w.reg = SampleRateReg(sens.kind)
       /\ sens'.call.w.val = sens.samplerate
       /\ sens'.call.w.ret = RegSize => sens'.hubrate = sens.samplerate
       /\ sens'.pending <=> (sens.samplerate > 0)
       /\ sens'.samplerate = sens.samplerate
       /\ sens'.latest_samplerate = sens.latest_samplerate
    ]_vars

\* C21 witness: the callback has run with the sensor off: -1 was written,
\* the register holds it, and no poll work is pending.
C21_Witness ==
  /\ sens.call.op = "restore"
  /\ sens.samplerate = -1 /\ sens.call.w.val = -1
  /\ sens.call.w.ret = RegSize /\ sens.hubrate = -1
  /\ ~sens.pending

\* C22: no sample is reported to user space that was built from a
\* register read that returned an error or a part of the register.
C22_NoReportFromFailedRead ==
  mpu.irq.reported => mpu.irq.whole

\* C23: the stored samplerate of a client changes only in a step whose
\* write of the new rate to the hub returned the register's width.
C23_RateFollowsWrite ==
  [][\A ty \in MpuTypes :
       mpu'.samplerate[ty] # mpu.samplerate[ty] => mpu'.wret = RegSize]_vars

(* ========================= claims on the bring-up ====================== *)
\* C24: a call of m4sensorhub_initialize with no firmware image, with a
\* failed download or with a failed m4sensorhub_irq_init invokes no
\* init-call, leaves the init-call list as it is and does not write the
\* mode; an init-call is invoked only in the drain of a call whose
\* download and interrupt initialisation succeeded.
C24_NoInitcallBeforeLoad ==
  /\ [][bringups' = bringups + 1 =>
          IF last'.firmware = NULL \/ last'.status < 0 \/ last'.err < 0
            THEN /\ ipc' = "idle"
                 /\ invoked' = invoked
                 /\ nodes' = nodes /\ inithead' = inithead
                 /\ registered' = registered
                 /\ mode' = mode
            ELSE ipc' = "dr_loop"]_vars
  /\ [][(invoked' # invoked /\ invoked' # <<>>) =>
          /\ ipc = "dr_loop"
          /\ last.op = "initialize" /\ last.firmware # NULL
          /\ last.status >= 0 /\ last.err >= 0
          /\ firmware_download_status >= 0]_vars

\* C24 witness: the image arrived and was loaded, m4sensorhub_irq_init
\* failed: an init call is registered and was not invoked, the mode is not
\* NORMALMODE.
C24_Witness ==
  /\ last.op = "initialize" /\ last.firmware # NULL
  /\ last.status = 0 /\ last.err < 0
  /\ ipc = "idle" /\ inithead # NULL /\ nodes[inithead].st = "live"
  /\ invoked = <<>>
  /\ mode # NORMALMODE

\* what the download_status attribute shows
DownloadStatus == IF mode = NORMALMODE THEN "1" ELSE "0"

\* the registrations that returned 0 and were not unregistered
Registered == SeqRange(Firsts(registered))

\* the registrations whose init call this drain has invoked
Invoked == SeqRange(Firsts(invoked))

\* C25: the step that makes the mode NORMALMODE is the end of a drain, all
\* registered init calls have been invoked by then, and download_status
\* shows 1 only when a drain has finished.
C25_NormalAfterDrain ==
  /\ [](DownloadStatus = "1" => drains > 0)
  /\ [][(mode' = NORMALMODE /\ mode # NORMALMODE) =>
          /\ ipc = "dr_loop" /\ inc = NULL
          /\ Registered \subseteq Invoked]_vars

\* C28: with registrations running side by side (no drain yet), every
\* registration that returned 0 has its node on the list that starts at
\* inithead.
C28_NoRegistrationLost ==
  drains = 0 =>
    \A r \in Registered :
      \E k \in 1..Len(InitList) : nodes[InitList[k]].reg = r

\* C29: a registration that returned 0 has its init call invoked in the
\* end, also when it came during or after the drain of a successful
\* bring-up.
C29_RegisteredIsInvoked ==
  \A r \in 1..MaxRegs :
    [](((r \in Registered) /\ (ipc = "dr_loop" \/ drains > 0)) =>
         <>(r \in Invoked))

\* C26: a call of m4acc_set_samplerate / m4gyr_set_samplerate ends with
\* latest_samplerate equal to the rate asked for, or to oversample_rate if
\* that rate is in [0, fastest_rate), whether the write to the hub was
\* skipped, went through or failed.
C26_LatestIsRequested ==
  [][SensCall("set") =>
       sens'.latest_samplerate =
         IF sens'.call.rate >= 0 /\ sens'.call.rate < FASTEST_RATE
           THEN OVERSAMPLE_RATE ELSE sens'.call.rate]_vars

\* C26 witness: rate 0 was asked for, the write of oversample_rate failed:
\* latest_samplerate is oversample_rate, samplerate is not.
C26_Witness ==
  /\ sens.call.op = "set" /\ sens.call.rate = 0
  /\ sens.call.w.reg # "none" /\ sens.call.w.ret # RegSize
  /\ sens.latest_samplerate = OVERSAMPLE_RATE
  /\ sens.samplerate # OVERSAMPLE_RATE

\* C30: while the stored samplerate is > 0, poll work is pending or
\* running.
C30_PollingNeverStops ==
  sens.samplerate > 0 => (sens.pending \/ sens.running)

\* C27: the walk of m4sensorhub_panic_process reads the callback and the
\* data of a slot as one pair with respect to panic_register and
\* panic_unregister: when a callback is called, the pair it is called with
\* is the content of the slot, and no register or unregister is between
\* its two stores.
C27_PairReadAtomically ==
  [][\A t \in Threads :
       (pc[t] = "pp_read" /\ pc'[t] = "cb_body") =>
         (handler'[t] = funcs[i[t]] /\ paniclock = NULL)]_vars

\* C36: m4sensorhub_panic_register and m4sensorhub_panic_unregister on
\* index i change slot i only: each of their steps leaves every other slot
\* as it was, and a register that is rejected (-EINVAL, -EPERM) leaves all
\* slots as they were.
C36_OnlySlotIndex ==
  [][/\ (IsCall("register") \/ IsCall("unregister")) =>
          /\ \A x \in PanicIndex :
               x # last'.index => funcs'[x] = funcs[x]
          /\ last'.ret # 0 => funcs' = funcs
     /\ \A t \in Threads :
          (pc[t] \in {"pr_data", "pu_data"} /\ pc'[t] = "idle") =>
             \A x \in PanicIndex : x # arg[t][1] => funcs'[x] = funcs[x]
    ]_vars

\* C36 witness: an unregister is in its first step (the callback of its
\* slot is gone) while the other slot holds a callback and data.
C36_Witness ==
  /\ last.op = "unregister" /\ last.ret = 0
  /\ pc[last.t] = "pu_data"
  /\ funcs[last.index].callback = NULL
  /\ \E x \in PanicIndex :
       x # last.index /\ funcs[x].callback # NULL /\ funcs[x].data # NULL

\* C31: once a setrate of -1 has gone through (the stored samplerate of
\* the accelerometer is -1), no run of the poll work reads the hub or
\* reports a sample, whether the work was queued or had started.
C31_NoPollAfterDisable ==
  [][(sens.kind = "m4acc" /\ SensCall("work")) => sens.samplerate # -1]_vars

\* C32: a set_samplerate call that switches oversampling on (request in
\* [0, fastest_rate)) leaves the hub programmed with oversample_rate; while
\* oversampling is on, poll runs read the secondary registers first and
\* then the primary and the secondary ones in turn; while it is off every
\* poll run reads the primary registers.
C32_OversampleAlternates ==
  [][/\ (SensCall("set") /\ "OVERSAMPLING" \in sens'.status) =>
          sens'.hubrate = OVERSAMPLE_RATE
     /\ SensCall("work") =>
          sens'.regset = IF "OVERSAMPLING" \in sens.status
                         THEN IF sens.regset = "secondary"
                                THEN "primary" ELSE "secondary"
                         ELSE "primary"
    ]_vars

\* C33: the IRQ_ENABLED status bit of the pedometer is set exactly when
\* its two events, pedometer data-ready and activity-change, are enabled:
\* both events are enabled or none is, and none is enabled while the bit
\* is clear.
C33_BitMeansBothEnabled ==
  ped.enabled = IF ped.irq_enabled THEN PedEvents ELSE {}

\* C34: after m4als_remove the slot of the light sensor data-ready event
\* holds no callback, and m4als_isr is not running with the driver data
\* that was freed.
C34_RemoveUnregistersEvent ==
  als.state = "removed" =>
    /\ irqtable[M4SH_IRQ_LIGHTSENSOR_DATA_READY].callback = NULL
    /\ cur[2] # M4ALS_ISR

\* the lock a thread is waiting for, and its owner
AtMutex(t) ==
  \/ pc[t] \in {"ce_enter", "di_enter"}
  \/ pc[t] = "cb_body" /\ RestoreWritesHub(handler[t])

WaitsFor(t) ==
  IF AtMutex(t) THEN ddmutex
  ELSE IF pc[t] \in {"ce_locked", "cb_locked"} THEN reg_access
  ELSE IF pc[t] = "di_locked" THEN paniclock
  ELSE NULL

\* a set of threads each of which waits for a lock that one of them holds
Deadlocked(S) == S # {} /\ \A t \in S : WaitsFor(t) \in S

\* C35: client entry points, m4sensorhub_panic_process with its callbacks
\* and panic register / unregister never deadlock: a thread that takes a
\* client's dd->mutex holds neither the bus access lock nor the panic-data
\* lock, and no set of threads waits for each other's locks.
C35_NoDeadlock ==
  /\ [](\A S \in SUBSET Threads : ~Deadlocked(S))
  /\ [][\A t \in Threads :
          (ddmutex' = t /\ ddmutex # t) =>
             (reg_access # t /\ paniclock # t)]_vars

\* C35 witness: the walk of m4sensorhub_panic_process is at the
\* mutex_lock of a recovery callback while a client entry point holds that
\* mutex and the bus access lock.
C35_Witness ==
  \E t \in Threads, u \in Threads :
    /\ pc[t] = "cb_body" /\ RestoreWritesHub(handler[t])
    /\ pc[u] = "ce_xfer" /\ ddmutex = u /\ reg_access = u

====
